---- MODULE Spec2Model ----
(***************************************************************************)
(* External financial data access layer of the stock analyst agent         *)
(* (src/src/tools/api/alpha-vantage.ts): caches, rate limiter, in-flight   *)
(* registry, retry, fetch operations and the multi-symbol comparison.      *)
(*                                                                         *)
(* Execution model.  JavaScript runs one macrotask (a caller's invocation, *)
(* a timer callback, an HTTP completion) to completion, together with the  *)
(* microtasks it schedules, before the next macrotask.  One action of this *)
(* module is one such turn; Date.now() does not change within a turn.      *)
(* Time (the variable now, in milliseconds) advances only in Tick, which   *)
(* never steps over a pending timer or over the timeout of an HTTP call.   *)
(***************************************************************************)
EXTENDS Integers, Sequences, FiniteSets, TLC

VARIABLES
    now,                      \* Date.now()
    env,                      \* process.env: which credentials are set
    tasks,                    \* every call of an operation made so far, in call order
    lastRequestTime,          \* rate limiter clock
    quoteCache,               \* symbol -> [data, cachedAt]
    metricsCache,             \* symbol -> [data, cachedAt]
    individualIndicatorCache, \* <<symbol, indicator>> -> [data, cachedAt]
    newsSentimentCache,       \* symbol -> [data, cachedAt]
    inflightRequests,         \* <<symbol, indicator>> -> task id of the fetching task
    calls,                    \* the upstream HTTP calls issued so far
    ticked,                   \* the last step was a free time step
    costTracker,              \* the CostTracker of the agent (cost-tracker.ts)
    agent,                    \* the fields of the StockAnalystAgent (main-agent.ts)
    sdk                       \* what the agent SDK was asked and what it delivered

vars == <<now, env, tasks, lastRequestTime, quoteCache, metricsCache,
          individualIndicatorCache, newsSentimentCache, inflightRequests,
          calls, ticked, costTracker, agent, sdk>>

----------------------------------------------------------------------------
(* Program constants *)

CACHE_TTL_MS == 5 * 60 * 1000
NEWS_CACHE_TTL_MS == 15 * 60 * 1000
RATE_LIMIT_DELAY_MS == 12000
RETRY_PAUSE_MS == 2000
HTTP_TIMEOUT_MS == 10000
DefaultRetries == 3

(* Bounds of the model *)

MaxIndCallers == 3
MaxSeqCalls == 3
MaxRetryCalls == 2
MaxConcCalls == 2
MaxSingleCalls == 2
MaxStrLen == 3
MaxWords == 3
MaxArticles == 3
MaxCaseCalls == 2
MaxFailCalls == 3
MaxCredCalls == 3
MaxMixCalls == 3
MaxMessages == 3
MaxQueries == 3
MaxTurnMessages == 2
MaxToolCalls == 2

(* The clock starts well past the epoch: lastRequestTime = 0 is then older  *)
(* than any interval or TTL, as it is for a real Date.now().                *)
Epoch == 2 * NEWS_CACHE_TTL_MS

\* a symbol is the sequence of its characters
AAPL == <<"A", "A", "P", "L">>
MSFT == <<"M", "S", "F", "T">>
Symbols == {AAPL, MSFT}
\* the argument a caller passes for a symbol: any letter case
RawSymbols == {AAPL, <<"a", "a", "p", "l">>, <<"A", "a", "p", "l">>,
               <<"m", "s", "f", "t">>}

\* String.prototype.toUpperCase on the letters of the symbols
LowerLetters == <<"a", "p", "l", "m", "s", "f", "t">>
UpperLetters == <<"A", "P", "L", "M", "S", "F", "T">>
UpperChar(c) ==
    IF \E i \in DOMAIN LowerLetters : LowerLetters[i] = c
    THEN UpperLetters[CHOOSE i \in DOMAIN LowerLetters : LowerLetters[i] = c]
    ELSE c
toUpperCaseKeep(s) == s
toUpperCase(s) == [i \in DOMAIN s |-> UpperChar(s[i])]
Indicators == {"SMA50", "SMA200", "RSI", "MACD"}

(* What the provider answers to one HTTP call.                              *)
(*   ok      a well-formed payload with data                                *)
(*   empty   HTTP 200 with an empty payload (unknown symbol, quota note)    *)
(*   neterr  no response (connection error or the 10 s timeout)             *)
(*   http5xx / http404 / http4xx  an error status                           *)
Outcomes == {"ok", "empty", "neterr", "http5xx", "http404", "http4xx"}
Transient == {"neterr", "http5xx"}

NoValue == 0
Undefined == -1
NoUsage == [absent |-> TRUE]
Settled == {"done", "failed"}

NoTask ==
    [op |-> "none", symbol |-> <<>>, sym |-> <<>>, ind |-> "", pc |-> "none", retries |-> 0,
     wake |-> 0, res |-> NoValue, err |-> "", parent |-> 0, callNo |-> 0,
     attempts |-> 0, pauses |-> 0, acquires |-> 0, transient |-> 0,
     hit |-> FALSE, lookupAge |-> -1, lookupData |-> NoValue, overlap |-> {},
     last |-> "", waited |-> 0, startedAt |-> 0, settledAt |-> 0,
     todo |-> <<>>, cur |-> 0, kids |-> {}, got |-> <<>>, args |-> <<>>,
     pausedAt |-> 0, pauseLog |-> <<>>, gateLog |-> <<>>]

----------------------------------------------------------------------------
(* Helpers of the module under study *)

isCacheValidInclusive(cachedAt, t) == (t - cachedAt) <= CACHE_TTL_MS
isCacheValidNever(cachedAt, t) == FALSE

\* isCacheValid: (now - cached.cachedAt) < CACHE_TTL_MS
isCacheValid(cachedAt, t) == (t - cachedAt) < CACHE_TTL_MS

\* the inline check of fetchNewsSentiment: age < NEWS_CACHE_TTL_MS
isNewsCacheValid(cachedAt, t) == (t - cachedAt) < NEWS_CACHE_TTL_MS

RateLimitWaitNone(t, last) == 0

\* respectRateLimit, the wait it computes at entry (0: no wait)
RateLimitWait(t, last) ==
    IF t - last < RATE_LIMIT_DELAY_MS THEN RATE_LIMIT_DELAY_MS - (t - last) ELSE 0

ShouldRetryOneMore(retries, outcome) ==
    retries >= 0 /\ outcome \in {"neterr", "http5xx"}
ShouldRetryOffByOne(retries, outcome) ==
    retries > 1 /\ outcome \in {"neterr", "http5xx"}
ShouldRetryAnyStatus(retries, outcome) ==
    retries > 0 /\ outcome \in {"neterr", "http5xx", "http404", "http4xx"}

\* the retry test of the catch blocks: retries > 0, an axios error, and
\* either no response or a status >= 500
ShouldRetry(retries, outcome) ==
    retries > 0 /\ outcome \in {"neterr", "http5xx"}

\* the error a quote/metrics fetch throws for a failure that is not retried
ErrorOf(outcome) ==
    CASE outcome = "http404" -> "not found"
      [] outcome \in {"neterr", "http5xx", "http4xx"} -> "API Error"
      [] OTHER -> "Invalid symbol or no data"

----------------------------------------------------------------------------
(* The program state as one record, so that the synchronous segments of     *)
(* the async functions compose as functions from state to state.            *)

State ==
    [tasks |-> tasks, lastRequestTime |-> lastRequestTime,
     quoteCache |-> quoteCache, metricsCache |-> metricsCache,
     individualIndicatorCache |-> individualIndicatorCache,
     newsSentimentCache |-> newsSentimentCache,
     inflightRequests |-> inflightRequests, calls |-> calls]

Started(st) == DOMAIN st.tasks
NewId(st) == Len(st.tasks) + 1

CacheName(op) ==
    CASE op = "quote" -> "quoteCache"
      [] op = "metrics" -> "metricsCache"
      [] op = "news" -> "newsSentimentCache"
      [] OTHER -> "individualIndicatorCache"

ApiOf(op, ind) ==
    CASE op = "quote" -> "GLOBAL_QUOTE"
      [] op = "metrics" -> "OVERVIEW"
      [] op = "news" -> "NEWS"
      [] OTHER -> ind

\* a settled call: resolved with a value or rejected with an error
Resolve(st, t, v) ==
    [st EXCEPT !.tasks[t].pc = "done", !.tasks[t].res = v, !.tasks[t].wake = 0,
               !.tasks[t].settledAt = now]
Reject(st, t, e) ==
    [st EXCEPT !.tasks[t].pc = "failed", !.tasks[t].err = e, !.tasks[t].wake = 0,
               !.tasks[t].settledAt = now]

\* the data the provider sends in answer to the n-th HTTP call of task t:
\* no two calls are answered with the same data
DataOf(t, n) == 10 * t + n

\* axios.get: the HTTP call leaves; it answers or times out within 10 s
IssueCall(st, t) ==
    LET tk == st.tasks[t]
        n == tk.attempts + 1
    IN [st EXCEPT !.calls = @ \cup {[api |-> ApiOf(tk.op, tk.ind), sym |-> tk.sym,
                                     at |-> now, task |-> t, n |-> n]},
                  !.tasks[t].pc = "http",
                  !.tasks[t].callNo = DataOf(t, n),
                  !.tasks[t].attempts = n,
                  !.tasks[t].wake = now + HTTP_TIMEOUT_MS]

respectRateLimitNoUpdate(st, t) ==
    LET w == RateLimitWait(now, st.lastRequestTime)
        s1 == [st EXCEPT !.tasks[t].gateLog =
                  Append(@, [seen |-> st.lastRequestTime, open |-> w = 0])]
    IN IF w > 0
       THEN [s1 EXCEPT !.tasks[t].pc = "rlwait", !.tasks[t].wake = now + w,
                       !.tasks[t].waited = w]
       ELSE IssueCall([s1 EXCEPT !.tasks[t].acquires = @ + 1], t)

\* respectRateLimit up to its first suspension: either the caller sleeps
\* for the computed wait, or lastRequestTime is set at once and the caller's
\* continuation (the HTTP call) runs in the same turn.
\* (the task's record keeps what each passage observed: the value of
\* lastRequestTime and whether it found the gate open)
respectRateLimit(st, t) ==
    LET w == RateLimitWait(now, st.lastRequestTime)
        s1 == [st EXCEPT !.tasks[t].gateLog =
                  Append(@, [seen |-> st.lastRequestTime, open |-> w = 0])]
    IN IF w > 0
       THEN [s1 EXCEPT !.tasks[t].pc = "rlwait", !.tasks[t].wake = now + w,
                       !.tasks[t].waited = w]
       ELSE IssueCall([s1 EXCEPT !.lastRequestTime = now,
                                 !.tasks[t].acquires = @ + 1], t)

respectRateLimitResumeKeep(st, t) ==
    IssueCall([st EXCEPT !.tasks[t].acquires = @ + 1], t)

\* respectRateLimit after its sleep: lastRequestTime = Date.now()
respectRateLimitResume(st, t) ==
    IssueCall([st EXCEPT !.lastRequestTime = now,
                         !.tasks[t].acquires = @ + 1], t)

\* the key of a call in its cache
KeyOf(tk) == IF tk.op = "ind" THEN <<tk.sym, tk.ind>> ELSE tk.sym

LookupEvict(st, t, valid) ==
    LET tk == st.tasks[t]
        cache == st[CacheName(tk.op)]
        found == KeyOf(tk) \in DOMAIN cache
    IN [st EXCEPT !.tasks[t].hit = valid,
                  !.tasks[t].lookupAge =
                      IF found THEN now - cache[KeyOf(tk)].cachedAt ELSE -1,
                  !.tasks[t].lookupData =
                      IF found THEN cache[KeyOf(tk)].data ELSE NoValue,
                  ![CacheName(tk.op)] =
                      IF found /\ ~valid
                      THEN [k \in DOMAIN cache \ {KeyOf(tk)} |-> cache[k]]
                      ELSE @]

\* the cache lookup at the head of a fetch operation; the call's record
\* keeps what the lookup found (age and data of the entry, -1 for none)
Lookup(st, t, valid) ==
    LET tk == st.tasks[t]
        cache == st[CacheName(tk.op)]
        found == KeyOf(tk) \in DOMAIN cache
    IN [st EXCEPT !.tasks[t].hit = valid,
                  !.tasks[t].lookupAge =
                      IF found THEN now - cache[KeyOf(tk)].cachedAt ELSE -1,
                  !.tasks[t].lookupData =
                      IF found THEN cache[KeyOf(tk)].data ELSE NoValue]

fetchEntryGateFirst(st, t) ==
    LET tk == st.tasks[t]
        cache == st[CacheName(tk.op)]
        fresh == tk.sym \in DOMAIN cache /\ isCacheValid(cache[tk.sym].cachedAt, now)
        s1 == Lookup(st, t, fresh)
    IN IF fresh THEN Resolve([s1 EXCEPT !.lastRequestTime = now], t, cache[tk.sym].data)
       ELSE IF ~env.API_KEY THEN Reject(s1, t, "ALPHA_VANTAGE_API_KEY not set")
       ELSE respectRateLimit(s1, t)

\* fetchStockQuote / fetchFinancialMetrics from entry to the first suspension
\* (also the recursive call of a retry): cache, credential, rate limiter.
fetchEntry(st, t) ==
    LET tk == st.tasks[t]
        cache == st[CacheName(tk.op)]
        fresh == tk.sym \in DOMAIN cache /\ isCacheValid(cache[tk.sym].cachedAt, now)
        s1 == Lookup(st, t, fresh)
    IN IF fresh THEN Resolve(s1, t, cache[tk.sym].data)
       ELSE IF ~env.API_KEY THEN Reject(s1, t, "ALPHA_VANTAGE_API_KEY not set")
       ELSE respectRateLimit(s1, t)

fetchSettleStoreAny(st, t, outcome) ==
    LET tk == st.tasks[t]
        s1 == [st EXCEPT !.tasks[t].last = outcome,
                         !.tasks[t].transient =
                             IF outcome \in Transient THEN @ + 1 ELSE @,
                         ![CacheName(tk.op)] =
                             IF outcome \in {"ok", "empty"}
                             THEN (tk.sym :> [data |-> tk.callNo, cachedAt |-> now]) @@ @
                             ELSE @]
    IN IF outcome = "ok" THEN Resolve(s1, t, tk.callNo)
       ELSE IF ShouldRetry(tk.retries, outcome)
       THEN [s1 EXCEPT !.tasks[t].pc = "pause",
                       !.tasks[t].wake = now + RETRY_PAUSE_MS,
                       !.tasks[t].pausedAt = now]
       ELSE Reject(s1, t, ErrorOf(outcome))

\* fetchStockQuote / fetchFinancialMetrics after the HTTP call has settled:
\* parse and cache, or the catch block (pause and retry, or throw)
fetchSettle(st, t, outcome) ==
    LET tk == st.tasks[t]
        s1 == [st EXCEPT !.tasks[t].last = outcome,
                         !.tasks[t].transient =
                             IF outcome \in Transient THEN @ + 1 ELSE @]
    IN IF outcome = "ok"
       THEN Resolve([s1 EXCEPT ![CacheName(tk.op)] =
                        (tk.sym :> [data |-> tk.callNo, cachedAt |-> now]) @@ @],
                    t, tk.callNo)
       ELSE IF ShouldRetry(tk.retries, outcome)
       THEN [s1 EXCEPT !.tasks[t].pc = "pause",
                       !.tasks[t].wake = now + RETRY_PAUSE_MS,
                       !.tasks[t].pausedAt = now]
       ELSE Reject(s1, t, ErrorOf(outcome))

fetchRetryNoLimiter(st, t) ==
    IssueCall([st EXCEPT !.tasks[t].retries = @ - 1,
                         !.tasks[t].pauses = @ + 1,
                         !.tasks[t].pauseLog = Append(@, now - st.tasks[t].pausedAt),
                          !.tasks[t].pausedAt = 0], t)

\* the recursive call after the retry pause: fetchX(symbol, retries - 1)
\* (the task's record keeps how long each pause lasted)
fetchRetry(st, t) ==
    fetchEntry([st EXCEPT !.tasks[t].retries = @ - 1,
                          !.tasks[t].pauses = @ + 1,
                          !.tasks[t].pauseLog = Append(@, now - st.tasks[t].pausedAt),
                          !.tasks[t].pausedAt = 0], t)

fetchNewsSentimentGated(st, t) ==
    LET tk == st.tasks[t]
        cache == st.newsSentimentCache
        fresh == tk.sym \in DOMAIN cache /\ isNewsCacheValid(cache[tk.sym].cachedAt, now)
        s1 == Lookup(st, t, fresh)
    IN IF fresh THEN Resolve(s1, t, cache[tk.sym].data)
       ELSE IF ~env.NEWS_API_KEY THEN Reject(s1, t, "NEWS_API_KEY not set")
       ELSE respectRateLimit(s1, t)

\* fetchNewsSentiment from entry to the HTTP call: cache (15 min), credential;
\* no rate limiter
fetchNewsSentiment(st, t) ==
    LET tk == st.tasks[t]
        cache == st.newsSentimentCache
        fresh == tk.sym \in DOMAIN cache /\ isNewsCacheValid(cache[tk.sym].cachedAt, now)
        s1 == Lookup(st, t, fresh)
    IN IF fresh THEN Resolve(s1, t, cache[tk.sym].data)
       ELSE IF ~env.NEWS_API_KEY THEN Reject(s1, t, "NEWS_API_KEY not set")
       ELSE IssueCall(s1, t)

newsSettleSwallow(st, t, outcome) ==
    LET tk == st.tasks[t]
        s1 == [st EXCEPT !.tasks[t].last = outcome]
    IN IF outcome = "ok"
       THEN Resolve([s1 EXCEPT !.newsSentimentCache =
                        (tk.sym :> [data |-> tk.callNo, cachedAt |-> now]) @@ @],
                    t, tk.callNo)
       ELSE Resolve(s1, t, NoValue)

\* fetchNewsSentiment after the HTTP call: status check, scoring, cache; an
\* error of any kind is rethrown, never retried
newsSettle(st, t, outcome) ==
    LET tk == st.tasks[t]
        s1 == [st EXCEPT !.tasks[t].last = outcome,
                         !.tasks[t].transient =
                             IF outcome \in Transient THEN @ + 1 ELSE @]
    IN IF outcome = "ok"
       THEN Resolve([s1 EXCEPT !.newsSentimentCache =
                        (tk.sym :> [data |-> tk.callNo, cachedAt |-> now]) @@ @],
                    t, tk.callNo)
       ELSE IF outcome = "empty" THEN Reject(s1, t, "News API returned error status")
       ELSE Reject(s1, t, "News API Error")

InflightLookupNone(reg, key) == 0
InflightRegisterNone(reg, key, t) == reg

\* inflightRequests.get(cacheKey): the fetching task, 0 for none
InflightLookup(reg, key) == IF key \in DOMAIN reg THEN reg[key] ELSE 0

\* inflightRequests.set(cacheKey, fetchPromise)
InflightRegister(reg, key, t) == (key :> t) @@ reg

InflightDeleteKeep(reg, key) == reg

\* inflightRequests.delete(cacheKey)
InflightDelete(reg, key) == [k \in DOMAIN reg \ {key} |-> reg[k]]

\* fetchSingleIndicator from entry to its first suspension: cache, then the
\* in-flight registry (join), else the fetching task starts (rate limiter)
\* and is registered
fetchSingleIndicatorBySymbol(st, t) ==
    LET tk == st.tasks[t]
        key == <<tk.sym, "SMA50">>
        cache == st.individualIndicatorCache
        fresh == key \in DOMAIN cache /\ isCacheValid(cache[key].cachedAt, now)
        s1 == Lookup(st, t, fresh)
        existing == InflightLookup(st.inflightRequests, key)
    IN IF fresh THEN Resolve(s1, t, cache[key].data)
       ELSE IF existing # 0
       THEN [s1 EXCEPT !.tasks[t].pc = "join", !.tasks[t].cur = existing]
       ELSE [respectRateLimit(s1, t) EXCEPT
                !.inflightRequests = InflightRegister(@, key, t)]

fetchSingleIndicator(st, t) ==
    LET tk == st.tasks[t]
        key == <<tk.sym, tk.ind>>
        cache == st.individualIndicatorCache
        fresh == key \in DOMAIN cache /\ isCacheValid(cache[key].cachedAt, now)
        s1 == Lookup(st, t, fresh)
        existing == InflightLookup(st.inflightRequests, key)
    IN IF fresh THEN Resolve(s1, t, cache[key].data)
       ELSE IF existing # 0
       THEN [s1 EXCEPT !.tasks[t].pc = "join", !.tasks[t].cur = existing]
       ELSE [respectRateLimit(s1, t) EXCEPT
                !.inflightRequests = InflightRegister(@, key, t)]

SettleJoinersResolved(st, t) ==
    [st EXCEPT !.tasks = [j \in DOMAIN st.tasks |->
        IF st.tasks[j].pc = "join" /\ st.tasks[j].cur = t
        THEN [st.tasks[j] EXCEPT !.pc = "done", !.res = Undefined, !.settledAt = now]
        ELSE st.tasks[j]]]

\* every caller that awaits the fetching task t settles as t did
SettleJoiners(st, t) ==
    [st EXCEPT !.tasks = [j \in DOMAIN st.tasks |->
        IF st.tasks[j].pc = "join" /\ st.tasks[j].cur = t
        THEN [st.tasks[j] EXCEPT !.pc = st.tasks[t].pc, !.res = st.tasks[t].res,
                                 !.err = st.tasks[t].err, !.settledAt = now]
        ELSE st.tasks[j]]]

\* the fetching task of fetchSingleIndicator after the HTTP call: the value
\* of the latest data point (undefined for an empty payload) is cached if
\* defined and returned; an HTTP error is thrown; finally the registry entry
\* is deleted
indicatorSettle(st, t, outcome) ==
    LET tk == st.tasks[t]
        key == <<tk.sym, tk.ind>>
        s1 == [st EXCEPT !.tasks[t].last = outcome,
                         !.tasks[t].transient =
                             IF outcome \in Transient THEN @ + 1 ELSE @,
                         !.inflightRequests = InflightDelete(@, key)]
        s2 == IF outcome = "ok"
              THEN Resolve([s1 EXCEPT !.individualIndicatorCache =
                               (key :> [data |-> tk.callNo, cachedAt |-> now]) @@ @],
                           t, tk.callNo)
              ELSE IF outcome = "empty" THEN Resolve(s1, t, Undefined)
              ELSE Reject(s1, t, "AxiosError")
    IN SettleJoiners(s2, t)

\* a new call of an operation: the task record at the moment of the call
NewTask(st, op, s, i, r, p) ==
    [NoTask EXCEPT !.op = op, !.sym = s, !.ind = i, !.pc = "start", !.retries = r,
                   !.parent = p, !.startedAt = now,
                   !.overlap = {u \in Started(st) :
                                   /\ st.tasks[u].op = op
                                   /\ st.tasks[u].sym = s
                                   /\ st.tasks[u].ind = i
                                   /\ st.tasks[u].pc \notin Settled}]

Spawn(st, op, s, i, r, p) ==
    [st EXCEPT !.tasks = Append(@, NewTask(st, op, s, i, r, p))]

\* the newest call was made with the argument symbol
Called(st, symbol) == [st EXCEPT !.tasks[Len(st.tasks)].symbol = symbol]

\* fetchStockQuote(symbol, retries) / fetchFinancialMetrics(symbol, retries) called
CallFetch(st, op, symbol, r, p) ==
    fetchEntry(Called(Spawn(st, op, toUpperCase(symbol), "", r, p), symbol), NewId(st))

\* fetchNewsSentiment(symbol) called
CallNews(st, symbol, p) ==
    fetchNewsSentiment(Called(Spawn(st, "news", toUpperCase(symbol), "", 0, p), symbol),
                       NewId(st))

\* the loop of fetchTechnicalIndicators: the next indicator is requested
\* with fetchSingleIndicator and awaited; with none left the result returns
indicatorLoopPair(st, t) ==
    LET tk == st.tasks[t] IN
    IF tk.todo = <<>> THEN Resolve(st, t, NoValue)
    ELSE LET c == NewId(st)
             s1 == fetchSingleIndicator(Spawn(st, "ind", tk.sym, Head(tk.todo), 0, t), c)
             s2 == [s1 EXCEPT !.tasks[t].pc = "await", !.tasks[t].cur = c,
                              !.tasks[t].todo = Tail(@), !.tasks[t].kids = @ \cup {c}]
             d == NewId(s2)
             rest == s2.tasks[t].todo
         IN IF rest = <<>> THEN s2
            ELSE [fetchSingleIndicator(Spawn(s2, "ind", tk.sym, Head(rest), 0, t), d)
                     EXCEPT !.tasks[t].cur = d, !.tasks[t].todo = Tail(rest),
                            !.tasks[t].kids = @ \cup {d}]

\* the for loop of fetchTechnicalIndicators: the next indicator is fetched
\* and awaited, or the result is returned when none is left
indicatorLoop(st, t) ==
    LET tk == st.tasks[t] IN
    IF tk.todo = <<>> THEN Resolve(st, t, NoValue)
    ELSE LET c == NewId(st)
             s1 == fetchSingleIndicator(Spawn(st, "ind", tk.sym, Head(tk.todo), 0, t), c)
         IN [s1 EXCEPT !.tasks[t].pc = "await", !.tasks[t].cur = c,
                       !.tasks[t].todo = Tail(@), !.tasks[t].kids = @ \cup {c}]

indicatorNextRethrow(st, t) ==
    LET c == st.tasks[t].cur
        ck == st.tasks[c]
    IN IF ck.pc = "failed" THEN Reject(st, t, ck.err)
       ELSE indicatorLoop(IF ck.res # Undefined
                          THEN [st EXCEPT !.tasks[t].got = (ck.ind :> ck.res) @@ @]
                          ELSE st, t)

\* fetchTechnicalIndicators resumed with the settled fetchSingleIndicator:
\* a defined value fills its field, undefined or an error leaves it absent,
\* and the loop goes on
indicatorNext(st, t) ==
    LET c == st.tasks[t].cur
        ck == st.tasks[c]
        s1 == IF ck.pc = "done" /\ ck.res # Undefined
              THEN [st EXCEPT !.tasks[t].got = (ck.ind :> ck.res) @@ @]
              ELSE st
    IN indicatorLoop(s1, t)

\* fetchTechnicalIndicators(symbol, indicators) called
fetchTechnicalIndicatorsUnchecked(st, symbol, inds, p) ==
    LET t == NewId(st)
        s1 == [Called(Spawn(st, "indset", toUpperCase(symbol), "", 0, p), symbol)
                  EXCEPT !.tasks[t].todo = inds, !.tasks[t].args = inds]
    IN indicatorLoop(s1, t)

fetchTechnicalIndicators(st, symbol, inds, p) ==
    LET t == NewId(st)
        s1 == [Called(Spawn(st, "indset", toUpperCase(symbol), "", 0, p), symbol)
                  EXCEPT !.tasks[t].todo = inds, !.tasks[t].args = inds]
    IN IF ~env.API_KEY THEN Reject(s1, t, "ALPHA_VANTAGE_API_KEY not set")
       ELSE indicatorLoop(s1, t)

\* Promise.all over the calls ks: rejected as soon as one has failed,
\* fulfilled when all have resolved, pending otherwise
PromiseAll(st, ks) ==
    IF \E k \in ks : st.tasks[k].pc = "failed" THEN "rejected"
    ELSE IF \A k \in ks : st.tasks[k].pc = "done" THEN "fulfilled"
    ELSE "pending"

\* the per-symbol task of compareStocks: fetchStockQuote and
\* fetchFinancialMetrics are called one after the other, then both awaited
compareSymbol(st, c, s) ==
    LET w == NewId(st)
        s1 == Spawn(st, "wrap", s, "", 0, c)
        q == NewId(s1)
        s2 == CallFetch(s1, "quote", s, DefaultRetries, w)
        m == NewId(s2)
        s3 == CallFetch(s2, "metrics", s, DefaultRetries, w)
    IN [s3 EXCEPT !.tasks[w].pc = "await", !.tasks[w].kids = {q, m},
                  !.tasks[c].kids = @ \cup {w}]

compareEachFirst(st, c, syms) ==
    IF syms = <<>> THEN st ELSE compareSymbol(st, c, Head(syms))

\* upperSymbols.map(async ...): the per-symbol tasks are started one after
\* the other in the same turn, each up to its first suspension
RECURSIVE compareEach(_, _, _)
compareEach(st, c, syms) ==
    IF syms = <<>> THEN st
    ELSE compareEach(compareSymbol(st, c, Head(syms)), c, Tail(syms))

\* compareStocks(symbols) called: every per-symbol task is started, then
\* all of them are awaited
compareStocks(st, symbols, p) ==
    LET c == NewId(st)
        upperSymbols == [i \in DOMAIN symbols |-> toUpperCase(symbols[i])]
        s1 == [Spawn(st, "compare", <<>>, "", 0, p) EXCEPT !.tasks[c].todo = upperSymbols,
                                                          !.tasks[c].args = symbols]
    IN [compareEach(s1, c, upperSymbols) EXCEPT !.tasks[c].pc = "await"]

wrapperResumeRethrow(st, w) ==
    IF PromiseAll(st, st.tasks[w].kids) = "fulfilled"
    THEN Resolve(st, w, NoValue)
    ELSE Reject(st, w, "rethrown")

wrapperResumeCancel(st, w) ==
    LET wk == st.tasks[w]
        q == CHOOSE k \in wk.kids : st.tasks[k].op = "quote"
        m == CHOOSE k \in wk.kids : st.tasks[k].op = "metrics"
    IN IF PromiseAll(st, wk.kids) = "fulfilled"
       THEN Resolve([st EXCEPT !.tasks[wk.parent].got =
                        (wk.sym :> [price |-> st.tasks[q].res,
                                    marketCap |-> st.tasks[m].res]) @@ @],
                    w, NoValue)
       ELSE Resolve([st EXCEPT !.tasks =
                        [k \in DOMAIN @ |->
                            IF k \in wk.kids /\ @[k].pc \notin Settled
                            THEN [@[k] EXCEPT !.pc = "failed", !.err = "cancelled",
                                              !.wake = 0, !.settledAt = now]
                            ELSE @[k]]],
                    w, Undefined)

\* the per-symbol task resumed: with both values it fills metrics[symbol];
\* the catch block turns a failure into a skipped symbol
wrapperResume(st, w) ==
    LET wk == st.tasks[w]
        q == CHOOSE k \in wk.kids : st.tasks[k].op = "quote"
        m == CHOOSE k \in wk.kids : st.tasks[k].op = "metrics"
    IN IF PromiseAll(st, wk.kids) = "fulfilled"
       THEN Resolve([st EXCEPT !.tasks[wk.parent].got =
                        (wk.sym :> [price |-> st.tasks[q].res,
                                    marketCap |-> st.tasks[m].res]) @@ @],
                    w, NoValue)
       ELSE Resolve(st, w, Undefined)

\* compareStocks resumed after the outer Promise.all
compareResume(st, c) ==
    IF PromiseAll(st, st.tasks[c].kids) = "fulfilled"
    THEN Resolve(st, c, NoValue)
    ELSE Reject(st, c, "rejected")

----------------------------------------------------------------------------
(* The tool handlers of financeToolsServer (src/src/tools/finance-tools.ts) *)

ToolNames ==
    {"get_stock_price", "get_financial_metrics", "calculate_technical_indicators",
     "analyze_news_sentiment", "compare_stocks"}

\* the text each catch block puts before the error message
ErrorPrefix(name) ==
    CASE name = "get_stock_price" -> "Error fetching stock data"
      [] name = "get_financial_metrics" -> "Error fetching financial metrics"
      [] name = "calculate_technical_indicators" -> "Error calculating technical indicators"
      [] name = "analyze_news_sentiment" -> "Error fetching news sentiment"
      [] OTHER -> "Error comparing stocks"

\* a handler called with args: the try block runs up to the await of the
\* fetch operation
callTool(st, name, args) ==
    LET h == NewId(st)
        s1 == [Spawn(st, "tool", <<>>, name, 0, 0) EXCEPT !.tasks[h].args = args]
        k == NewId(s1)
        s2 == CASE name = "get_stock_price" ->
                       CallFetch(s1, "quote", args.symbol, DefaultRetries, h)
                [] name = "get_financial_metrics" ->
                       CallFetch(s1, "metrics", args.symbol, DefaultRetries, h)
                [] name = "calculate_technical_indicators" ->
                       fetchTechnicalIndicators(s1, args.symbol, args.indicators, h)
                [] name = "analyze_news_sentiment" -> CallNews(s1, args.symbol, h)
                [] OTHER -> compareStocks(s1, args.symbols, h)
    IN [s2 EXCEPT !.tasks[h].pc = "await", !.tasks[h].cur = k]

\* one cell of the comparison table: m ? value : 'N/A'
Cell(metrics, s, field) ==
    IF s \in DOMAIN metrics
    THEN [text |-> "value", value |-> metrics[s][field]]
    ELSE [text |-> "N/A", value |-> NoValue]

\* the text the try block builds from the value the operation returned
FormatResponse(name, kt) ==
    CASE name \in {"get_stock_price", "get_financial_metrics", "analyze_news_sentiment"} ->
             [head |-> name, body |-> kt.res]
      [] name = "calculate_technical_indicators" ->
             [head |-> name, body |-> kt.got]
      [] OTHER ->
             [head |-> name,
              body |-> [symbols |-> kt.todo,
                        price |-> [i \in DOMAIN kt.todo |-> Cell(kt.got, kt.todo[i], "price")],
                        marketCap |-> [i \in DOMAIN kt.todo |->
                                          Cell(kt.got, kt.todo[i], "marketCap")]]]

toolResumeNoCatch(st, h) ==
    LET kt == st.tasks[st.tasks[h].cur]
        name == st.tasks[h].ind
    IN IF kt.pc = "failed"
       THEN Reject(st, h, kt.err)
       ELSE Resolve([st EXCEPT !.tasks[h].got =
                        [isError |-> FALSE, text |-> FormatResponse(name, kt)]],
                    h, NoValue)

\* the handler resumed when its operation has settled: the formatted text
\* is returned, or the catch block returns the error message with isError
toolResume(st, h) ==
    LET kt == st.tasks[st.tasks[h].cur]
        name == st.tasks[h].ind
    IN IF kt.pc = "failed"
       THEN Resolve([st EXCEPT !.tasks[h].got =
                        [isError |-> TRUE,
                         text |-> [head |-> ErrorPrefix(name), body |-> kt.err]]],
                    h, NoValue)
       ELSE Resolve([st EXCEPT !.tasks[h].got =
                        [isError |-> FALSE, text |-> FormatResponse(name, kt)]],
                    h, NoValue)

\* a suspended caller whose awaited calls have settled
CanResume(st, t) ==
    /\ st.tasks[t].pc = "await"
    /\ CASE st.tasks[t].op = "indset" -> st.tasks[st.tasks[t].cur].pc \in Settled
         [] st.tasks[t].op = "wrap" -> PromiseAll(st, st.tasks[t].kids) # "pending"
         [] st.tasks[t].op = "compare" -> PromiseAll(st, st.tasks[t].kids) # "pending"
         [] st.tasks[t].op = "tool" -> st.tasks[st.tasks[t].cur].pc \in Settled
         [] OTHER -> FALSE

Resume(st, t) ==
    CASE st.tasks[t].op = "indset" -> indicatorNext(st, t)
      [] st.tasks[t].op = "wrap" -> wrapperResume(st, t)
      [] st.tasks[t].op = "tool" -> toolResume(st, t)
      [] OTHER -> compareResume(st, t)

\* the position of a resumable caller in the microtask queue: callers are
\* resumed in the order in which the calls they await were made
QueuePos(st, t) ==
    IF st.tasks[t].op = "indset" THEN st.tasks[t].cur ELSE t

Resumable(st) == {t \in Started(st) : CanResume(st, t)}

\* the rest of the turn: resume the callers of settled calls until none is
\* left
RECURSIVE Drain(_)
Drain(st) ==
    IF Resumable(st) = {} THEN st
    ELSE LET t == CHOOSE x \in Resumable(st) :
                     \A y \in Resumable(st) : QueuePos(st, x) <= QueuePos(st, y)
         IN Drain(Resume(st, t))

\* the state at the end of a turn
Commit(st) ==
    LET s1 == Drain(st) IN
    /\ tasks' = s1.tasks
    /\ lastRequestTime' = s1.lastRequestTime
    /\ quoteCache' = s1.quoteCache
    /\ metricsCache' = s1.metricsCache
    /\ individualIndicatorCache' = s1.individualIndicatorCache
    /\ newsSentimentCache' = s1.newsSentimentCache
    /\ inflightRequests' = s1.inflightRequests
    /\ calls' = s1.calls
    /\ UNCHANGED <<costTracker, agent, sdk>>

----------------------------------------------------------------------------
(* Actions *)

TaskIds == DOMAIN tasks
AllSettled == \A t \in TaskIds : tasks[t].pc \in Settled
TopLevel == {t \in TaskIds : tasks[t].parent = 0}

\* a caller invokes fetchStockQuote or fetchFinancialMetrics
StartFetch(op, s, r) ==
    /\ Commit(CallFetch(State, op, s, r, 0))
    /\ ticked' = FALSE
    /\ UNCHANGED <<now, env>>

\* a caller invokes fetchNewsSentiment
StartNews(s) ==
    /\ Commit(CallNews(State, s, 0))
    /\ ticked' = FALSE
    /\ UNCHANGED <<now, env>>

\* a caller invokes fetchTechnicalIndicators
StartIndicators(s, inds) ==
    /\ Commit(fetchTechnicalIndicators(State, s, inds, 0))
    /\ ticked' = FALSE
    /\ UNCHANGED <<now, env>>

\* a caller invokes compareStocks
StartCompare(syms) ==
    /\ Commit(compareStocks(State, syms, 0))
    /\ ticked' = FALSE
    /\ UNCHANGED <<now, env>>

\* the provider answers the fetching task of an indicator
IndicatorResponse(t, outcome) ==
    /\ tasks[t].pc = "http"
    /\ tasks[t].op = "ind"
    /\ Commit(indicatorSettle(State, t, outcome))
    /\ ticked' = FALSE /\ UNCHANGED <<now, env>>

\* the sleep of respectRateLimit ends
RateLimitWake(t) ==
    /\ tasks[t].pc = "rlwait"
    /\ now = tasks[t].wake
    /\ Commit(respectRateLimitResume(State, t))
    /\ ticked' = FALSE /\ UNCHANGED <<now, env>>

\* the retry pause ends
RetryWake(t) ==
    /\ tasks[t].pc = "pause"
    /\ now = tasks[t].wake
    /\ Commit(fetchRetry(State, t))
    /\ ticked' = FALSE /\ UNCHANGED <<now, env>>

\* the provider answers (or the call times out) for a quote/metrics fetch
FetchResponse(t, outcome) ==
    /\ tasks[t].pc = "http"
    /\ tasks[t].op \in {"quote", "metrics"}
    /\ Commit(fetchSettle(State, t, outcome))
    /\ ticked' = FALSE /\ UNCHANGED <<now, env>>

\* the news provider answers
NewsResponse(t, outcome) ==
    /\ tasks[t].pc = "http"
    /\ tasks[t].op = "news"
    /\ Commit(newsSettle(State, t, outcome))
    /\ ticked' = FALSE /\ UNCHANGED <<now, env>>

Waiting(pcs) == {t \in TaskIds : tasks[t].pc \in pcs}
Timers == {tasks[t].wake : t \in Waiting({"rlwait", "pause"})}
HttpDeadlines == {tasks[t].wake : t \in Waiting({"http"})}
Deadlines == Timers \cup HttpDeadlines

\* time passes; it never steps over a pending timer or HTTP timeout
Tick(d) ==
    /\ d > 0
    /\ \A w \in Deadlines : now + d <= w
    /\ now' = now + d
    /\ UNCHANGED <<env, tasks, lastRequestTime, quoteCache, metricsCache,
                   individualIndicatorCache, newsSentimentCache,
                   inflightRequests, calls, costTracker, agent, sdk>>

\* time passes by a step of the environment's choosing (two such steps in
\* a row are one step of their sum, so one at a time is explored)
FreeTick(d) ==
    /\ ~ticked
    /\ Tick(d)
    /\ ticked' = TRUE

\* time passes up to the earliest pending timer
TimerTick ==
    /\ \E w \in Timers :
          /\ \A x \in Timers : w <= x
          /\ Tick(w - now)
    /\ ticked' = FALSE

\* time passes up to the earliest HTTP timeout: the slowest possible answer
HttpTick ==
    /\ \E w \in HttpDeadlines :
          /\ \A x \in HttpDeadlines : w <= x
          /\ Tick(w - now)
    /\ ticked' = FALSE

----------------------------------------------------------------------------
(* CostTracker (src/src/utils/cost-tracker.ts)                              *)

\* costs are counted in units of 10^-10 USD, in which the four prices per
\* token are whole numbers
InputPrice == 30000
OutputPrice == 150000
CacheReadPrice == 300
CacheCreationPrice == 375

\* x || 0 for a token count that may be missing
OrZero(x) == IF x = Undefined THEN 0 ELSE x

\* new CostTracker(): no processed id, no step, finalTotalCost = 0
NewCostTracker ==
    [processedMessageIds |-> {}, stepUsages |-> <<>>, finalTotalCost |-> 0]

\* calculateStepCost(usage)
calculateStepCost(usage) ==
    OrZero(usage.input_tokens) * InputPrice
      + OrZero(usage.output_tokens) * OutputPrice
      + OrZero(usage.cache_read_input_tokens) * CacheReadPrice
      + OrZero(usage.cache_creation_input_tokens) * CacheCreationPrice

\* the StepUsage record pushed for a message
StepUsageOf(message) ==
    [messageId |-> message.id,
     usage |-> [input_tokens |-> OrZero(message.usage.input_tokens),
                output_tokens |-> OrZero(message.usage.output_tokens),
                cache_creation_input_tokens |-> message.usage.cache_creation_input_tokens,
                cache_read_input_tokens |-> message.usage.cache_read_input_tokens],
     costUSD |-> calculateStepCost(message.usage)]

processMessageNoDedup(tr, message) ==
    IF message.type = "result" /\ message.total_cost_usd # Undefined
    THEN [tr EXCEPT !.finalTotalCost = message.total_cost_usd]
    ELSE IF message.type # "assistant" \/ message.usage = NoUsage THEN tr
    ELSE [tr EXCEPT !.processedMessageIds = @ \cup {message.id},
                    !.stepUsages = Append(@, StepUsageOf(message))]

\* CostTracker.processMessage(message)
processMessage(tr, message) ==
    IF message.type = "result" /\ message.total_cost_usd # Undefined
    THEN [tr EXCEPT !.finalTotalCost = message.total_cost_usd]
    ELSE IF message.type # "assistant" \/ message.usage = NoUsage THEN tr
    ELSE IF message.id \in tr.processedMessageIds THEN tr
    ELSE [tr EXCEPT !.processedMessageIds = @ \cup {message.id},
                    !.stepUsages = Append(@, StepUsageOf(message))]

\* stepUsages.reduce((sum, step) => sum + f(step), 0) for the five totals
RECURSIVE SumSteps(_, _)
SumSteps(steps, field) ==
    IF steps = <<>> THEN 0
    ELSE SumSteps(Tail(steps), field) +
         CASE field = "input" -> Head(steps).usage.input_tokens
           [] field = "output" -> Head(steps).usage.output_tokens
           [] field = "cacheRead" -> OrZero(Head(steps).usage.cache_read_input_tokens)
           [] field = "cacheCreation" ->
                  OrZero(Head(steps).usage.cache_creation_input_tokens)
           [] OTHER -> Head(steps).costUSD

\* CostTracker.getTotalCost()
getTotalCost(tr) == tr.finalTotalCost

\* CostTracker.getDetailedUsage(): finalTotalCost || calculatedTotalCost
getDetailedUsage(tr) ==
    [totalSteps |-> Len(tr.stepUsages),
     totalInputTokens |-> SumSteps(tr.stepUsages, "input"),
     totalOutputTokens |-> SumSteps(tr.stepUsages, "output"),
     totalCacheReadTokens |-> SumSteps(tr.stepUsages, "cacheRead"),
     totalCacheCreationTokens |-> SumSteps(tr.stepUsages, "cacheCreation"),
     totalCostUSD |-> IF tr.finalTotalCost # 0 THEN tr.finalTotalCost
                      ELSE SumSteps(tr.stepUsages, "cost"),
     stepBreakdown |-> tr.stepUsages]

\* CostTracker.reset()
reset(tr) == NewCostTracker

----------------------------------------------------------------------------
(* StockAnalystAgent (src/src/agent/main-agent.ts)                          *)

\* new StockAnalystAgent(): totalCost = 0, no session id
NoSession == "undefined"
NoResume == "no resume option"
NewAgent == [totalCost |-> 0, sessionId |-> NoSession]

\* the SDK's side of the agent: the messages delivered since the tracker
\* was made or last reset (wasReset: it has been reset), the queries made
\* so far with their options, whether the latest one is still running, and
\* which of clearSession and the capture of a session id came last;
\* during a query, delivered holds the messages of that query
NoTraffic ==
    [delivered |-> <<>>, wasReset |-> FALSE, queries |-> <<>>, running |-> FALSE,
     lastSessionEvent |-> "none"]

\* hasSession(): this.sessionId !== undefined
hasSession(ag) == ag.sessionId # NoSession

\* the resume option of query(): ...(this.sessionId ? {resume} : {})
ResumeOption(ag) == IF ag.sessionId # NoSession THEN ag.sessionId ELSE NoResume

analyzeNoReset(st) ==
    [st EXCEPT !.agent.totalCost = 0,
               !.sdk.delivered = <<>>,
               !.sdk.wasReset = TRUE,
               !.sdk.queries = Append(@, [resume |-> ResumeOption(st.agent),
                                          hadSession |-> hasSession(st.agent),
                                          sessionAtCall |-> st.agent.sessionId,
                                          steps |-> 0]),
               !.sdk.running = TRUE]

\* analyze(userPrompt) up to the first await of the message loop: the cost
\* fields are reset and query() is called with the resume option
analyze(st) ==
    [st EXCEPT !.agent.totalCost = 0,
               !.costTracker = reset(@),
               !.sdk.delivered = <<>>,
               !.sdk.wasReset = TRUE,
               !.sdk.queries = Append(@, [resume |-> ResumeOption(st.agent),
                                          hadSession |-> hasSession(st.agent),
                                          sessionAtCall |-> st.agent.sessionId,
                                          steps |-> 0]),
               !.sdk.running = TRUE]

\* one iteration of the for await loop of analyze with message m
onMessage(st, m) ==
    LET s1 == IF m.type = "system" /\ m.subtype = "init"
              THEN [st EXCEPT !.agent.sessionId = m.session_id,
                              !.sdk.lastSessionEvent = "init"]
              ELSE st
        s2 == [s1 EXCEPT !.costTracker = processMessage(@, m),
                         !.sdk.delivered = Append(@, m)]
    IN IF m.type = "result"
       THEN [s2 EXCEPT !.agent.totalCost = m.total_cost_usd]
       ELSE s2

\* the message stream ends (analyze returns) or fails (analyze throws)
analyzeEnd(st) ==
    [st EXCEPT !.sdk.running = FALSE,
               !.sdk.queries[Len(st.sdk.queries)].steps =
                   getDetailedUsage(st.costTracker).totalSteps]

\* clearSession(): this.sessionId = undefined
clearSession(st) ==
    [st EXCEPT !.agent.sessionId = NoSession, !.sdk.lastSessionEvent = "clear"]

InitState(keys) ==
    /\ now = Epoch
    /\ env = keys
    /\ tasks = <<>>
    /\ lastRequestTime = 0
    /\ quoteCache = <<>>
    /\ metricsCache = <<>>
    /\ individualIndicatorCache = <<>>
    /\ newsSentimentCache = <<>>
    /\ inflightRequests = <<>>
    /\ calls = {}
    /\ ticked = FALSE
    /\ costTracker = NewCostTracker
    /\ agent = NewAgent
    /\ sdk = NoTraffic

AllKeys == [API_KEY |-> TRUE, NEWS_API_KEY |-> TRUE]

----------------------------------------------------------------------------
(* SpecSeq: one caller that awaits each fetch before it issues the next     *)
(* (the pattern of src/src/test-alpha-vantage.ts), with pauses of its       *)
(* choosing between the fetches.                                            *)

SeqSteps == {RATE_LIMIT_DELAY_MS \div 2, CACHE_TTL_MS, NEWS_CACHE_TTL_MS}
SeqOutcomes == {"ok"}
SeqIndOutcomes == {"ok", "empty"}

InitSeq == InitState(AllKeys)

SeqStartFetch ==
    /\ AllSettled
    /\ Cardinality(TopLevel) < MaxSeqCalls
    /\ \E op \in {"quote", "metrics"} : StartFetch(op, AAPL, DefaultRetries)

SeqStartNews ==
    /\ AllSettled
    /\ Cardinality(TopLevel) < MaxSeqCalls
    /\ StartNews(AAPL)

SeqStartIndicators ==
    /\ AllSettled
    /\ Cardinality(TopLevel) < MaxSeqCalls
    /\ StartIndicators(AAPL, <<"RSI">>)

SeqTick == \E d \in SeqSteps : AllSettled /\ FreeTick(d)

NextSeq ==
    \/ SeqStartFetch
    \/ SeqStartNews
    \/ SeqStartIndicators
    \/ \E t \in TaskIds : RateLimitWake(t)
    \/ \E t \in TaskIds, o \in SeqOutcomes : FetchResponse(t, o)
    \/ \E t \in TaskIds, o \in SeqOutcomes : NewsResponse(t, o)
    \/ \E t \in TaskIds, o \in SeqIndOutcomes : IndicatorResponse(t, o)
    \/ SeqTick
    \/ TimerTick

SpecSeq == InitSeq /\ [][NextSeq]_vars

----------------------------------------------------------------------------
(* SpecInd: callers of fetchTechnicalIndicators that overlap freely, with   *)
(* every answer of the provider and with cache expiry.                      *)

IndLists == {<<"SMA50">>, <<"RSI", "SMA50">>}
IndOutcomes == {"ok", "http5xx"}

InitInd == InitState(AllKeys)

IndStart ==
    /\ Cardinality(TopLevel) < MaxIndCallers
    /\ \E inds \in IndLists : StartIndicators(AAPL, inds)

IndExpire == AllSettled /\ FreeTick(CACHE_TTL_MS)

NextInd ==
    \/ IndStart
    \/ \E t \in TaskIds : RateLimitWake(t)
    \/ \E t \in TaskIds, o \in IndOutcomes : IndicatorResponse(t, o)
    \/ IndExpire
    \/ TimerTick

SpecInd == InitInd /\ [][NextInd]_vars

----------------------------------------------------------------------------
(* SpecCmp: one compareStocks call; tickers may be unknown and the network  *)
(* may fail.                                                                *)

CmpLists == {<<AAPL, MSFT>>}
CmpOutcomes == {"ok", "empty", "neterr"}

\* how the provider answers each endpoint of each symbol throughout the
\* run: with data, with an empty payload (unknown ticker), or not at all
Markets == [Symbols \X {"quote", "metrics"} -> CmpOutcomes]

InitCmp ==
    \E m \in Markets :
        InitState([API_KEY |-> TRUE, NEWS_API_KEY |-> TRUE, market |-> m])

CmpStart ==
    /\ tasks = <<>>
    /\ \E syms \in CmpLists : StartCompare(syms)

CmpResponse ==
    \E t \in TaskIds : FetchResponse(t, env.market[<<tasks[t].sym, tasks[t].op>>])

NextCmp ==
    \/ CmpStart
    \/ \E t \in TaskIds : RateLimitWake(t)
    \/ \E t \in TaskIds : RetryWake(t)
    \/ CmpResponse
    \/ TimerTick

SpecCmp == InitCmp /\ [][NextCmp]_vars

----------------------------------------------------------------------------
(* SpecRetry: single-symbol fetches, one after the other, against a         *)
(* provider that may answer each attempt in any way and at any speed.       *)

InitRetry == InitState(AllKeys)

RetryStart ==
    /\ AllSettled
    /\ Cardinality(TopLevel) < MaxRetryCalls
    /\ \E op \in {"quote", "metrics"} : StartFetch(op, AAPL, DefaultRetries)

NextRetry ==
    \/ RetryStart
    \/ \E t \in TaskIds : RateLimitWake(t)
    \/ \E t \in TaskIds : RetryWake(t)
    \/ \E t \in TaskIds, o \in Outcomes : FetchResponse(t, o)
    \/ TimerTick
    \/ HttpTick

SpecRetry == InitRetry /\ [][NextRetry]_vars

\* the provider keeps failing with a transient error; every upstream call
\* and every timed wait settles (an HTTP call is answered or times out, a
\* setTimeout fires)
NextRetryFair ==
    \/ RetryStart
    \/ \E t \in TaskIds : RateLimitWake(t)
    \/ \E t \in TaskIds : RetryWake(t)
    \/ \E t \in TaskIds, o \in Transient : FetchResponse(t, o)
    \/ TimerTick
    \/ HttpTick

SpecRetryFair == InitRetry /\ [][NextRetryFair]_vars /\ WF_vars(NextRetryFair)

----------------------------------------------------------------------------
(* SpecConc: callers that invoke the single-symbol fetches of one symbol    *)
(* without waiting for one another (two analysts asking for the same data). *)

ConcOutcomes == {"ok", "http5xx"}

InitConc == InitState(AllKeys)

ConcStartFetch ==
    /\ Cardinality(TopLevel) < MaxConcCalls
    /\ \E op \in {"quote", "metrics"} : StartFetch(op, AAPL, DefaultRetries)

ConcStartNews ==
    /\ Cardinality(TopLevel) < MaxConcCalls
    /\ StartNews(AAPL)

NextConc ==
    \/ ConcStartFetch
    \/ ConcStartNews
    \/ \E t \in TaskIds : RateLimitWake(t)
    \/ \E t \in TaskIds : RetryWake(t)
    \/ \E t \in TaskIds, o \in ConcOutcomes : FetchResponse(t, o)
    \/ \E t \in TaskIds, o \in ConcOutcomes : NewsResponse(t, o)
    \/ TimerTick

SpecConc == InitConc /\ [][NextConc]_vars

\* every timer fires and every upstream call is answered
SpecConcFair == InitConc /\ [][NextConc]_vars /\ WF_vars(NextConc)

----------------------------------------------------------------------------
(* Parsing of the provider's payloads. A string is a sequence of characters *)
(* and a missing field is Absent. A number is kept as an integer count of   *)
(* 1/FracScale units, NaN apart.                                            *)

Chars == {"0", "5", ".", "-", "%"}
DigitChars == {"0", "5"}
DigitVal(c) == IF c = "5" THEN 5 ELSE 0
FracScale == 100000
NaN == [nan |-> TRUE, units |-> 0]
Num(u) == [nan |-> FALSE, units |-> u]
Absent == <<"absent">>
NoneStr == <<"N", "o", "n", "e">>
Null == [null |-> TRUE]

RECURSIVE StrsOfLen(_)
StrsOfLen(n) ==
    IF n = 0 THEN {<<>>}
    ELSE {Append(s, c) : s \in StrsOfLen(n - 1), c \in Chars}
RECURSIVE StrsUpTo(_)
StrsUpTo(n) == IF n = 0 THEN {<<>>} ELSE StrsOfLen(n) \cup StrsUpTo(n - 1)

\* the field values the provider may send: short strings, "None", nothing
FieldValues == StrsUpTo(MaxStrLen) \cup {NoneStr, Absent}

\* the longest prefix of s made of decimal digits
RECURSIVE DigitPrefix(_)
DigitPrefix(s) ==
    IF s = <<>> \/ Head(s) \notin DigitChars THEN <<>>
    ELSE <<Head(s)>> \o DigitPrefix(Tail(s))

Drop(s, n) == SubSeq(s, n + 1, Len(s))

RECURSIVE Pow10(_)
Pow10(n) == IF n = 0 THEN 1 ELSE 10 * Pow10(n - 1)

\* the value of a digit string read as an integer
RECURSIVE IntOf(_)
IntOf(ds) ==
    IF ds = <<>> THEN 0
    ELSE 10 * IntOf(SubSeq(ds, 1, Len(ds) - 1)) + DigitVal(ds[Len(ds)])

\* the value of a digit string read after the decimal point, in units
FracOf(ds) == IF ds = <<>> THEN 0 ELSE (IntOf(ds) * FracScale) \div Pow10(Len(ds))

\* parseFloat(value): undefined reads as "undefined"; an optional sign, then
\* the longest decimal literal (digits, optional point, digits); whatever
\* follows is ignored; NaN when there is no digit
parseFloat(v) ==
    IF v = Absent \/ v = NoneStr \/ v = <<>> THEN NaN
    ELSE LET neg == Head(v) = "-"
             r == IF neg THEN Tail(v) ELSE v
             ip == DigitPrefix(r)
             r2 == Drop(r, Len(ip))
             fp == IF r2 # <<>> /\ Head(r2) = "." THEN DigitPrefix(Tail(r2)) ELSE <<>>
             u == IntOf(ip) * FracScale + FracOf(fp)
         IN IF ip = <<>> /\ fp = <<>> THEN NaN
            ELSE Num(IF neg THEN 0 - u ELSE u)

\* parseInt(value, 10): an optional sign, then the longest run of digits
parseInt(v) ==
    IF v = Absent \/ v = NoneStr \/ v = <<>> THEN NaN
    ELSE LET neg == Head(v) = "-"
             r == IF neg THEN Tail(v) ELSE v
             ip == DigitPrefix(r)
             u == IntOf(ip) * FracScale
         IN IF ip = <<>> THEN NaN ELSE Num(IF neg THEN 0 - u ELSE u)

parseFloatOrNullZero(v) ==
    IF parseFloat(v).nan THEN Num(0) ELSE parseFloat(v)

\* parseFloatOrNull: null for a missing, empty, "None" or "-" value and for
\* one parseFloat reads as NaN, else the number parseFloat reads
parseFloatOrNull(v) ==
    IF v = Absent \/ v = <<>> \/ v = NoneStr \/ v = <<"-">> THEN Null
    ELSE IF parseFloat(v).nan THEN Null ELSE parseFloat(v)

\* parseQuoteResponse: a missing or empty "Global Quote" throws; the
\* change percent is read with .replace, which throws on a missing field;
\* price and volume are read with parseFloat and parseInt, unchecked
EmptyPayload == [empty |-> TRUE]
QuotePayload(p, v, c) == [empty |-> FALSE, price |-> p, volume |-> v, changePercent |-> c]
parseQuoteResponse(payload) ==
    IF payload.empty
    THEN [throws |-> TRUE, err |-> "Invalid symbol or no data returned"]
    ELSE IF payload.changePercent = Absent
    THEN [throws |-> TRUE, err |-> "TypeError"]
    ELSE [throws |-> FALSE,
          quote |-> [price |-> parseFloat(payload.price),
                     volume |-> parseInt(payload.volume)]]

\* fetchStockQuote after the provider has answered with a payload: the
\* parsed quote is cached and returned; an error of the parser is no axios
\* error and is rethrown
fetchSettlePayload(st, t, payload) ==
    LET tk == st.tasks[t]
        q == parseQuoteResponse(payload)
        s1 == [st EXCEPT !.tasks[t].last = IF q.throws THEN "empty" ELSE "ok"]
    IN IF q.throws THEN Reject(s1, t, q.err)
       ELSE Resolve([s1 EXCEPT !.quoteCache =
                        (tk.sym :> [data |-> q.quote, cachedAt |-> now]) @@ @],
                    t, q.quote)

\* parseOverviewResponse: a payload without Symbol throws; the optional
\* ratios are read with parseFloatOrNull
OverviewPayload(sym, pe) == [Symbol |-> sym, PERatio |-> pe]
parseOverviewResponse(payload) ==
    IF payload.Symbol = Absent \/ payload.Symbol = <<>>
    THEN [throws |-> TRUE, err |-> "Invalid company overview data"]
    ELSE [throws |-> FALSE, metrics |-> [peRatio |-> parseFloatOrNull(payload.PERatio)]]

\* fetchFinancialMetrics after the provider has answered with a payload
metricsSettlePayload(st, t, payload) ==
    LET tk == st.tasks[t]
        m == parseOverviewResponse(payload)
        s1 == [st EXCEPT !.tasks[t].last = IF m.throws THEN "empty" ELSE "ok",
                         !.tasks[t].lookupData = payload]
    IN IF m.throws THEN Reject(s1, t, m.err)
       ELSE Resolve([s1 EXCEPT !.metricsCache =
                        (tk.sym :> [data |-> m.metrics, cachedAt |-> now]) @@ @],
                    t, m.metrics)

----------------------------------------------------------------------------
(* SpecParseQuote: one fetchStockQuote call answered with a quote payload   *)
(* whose price and volume fields hold any of the field values.              *)

QuotePayloads ==
    {EmptyPayload} \cup
    {QuotePayload(p, v, c) : p \in FieldValues, v \in FieldValues,
                             c \in {<<"5", "%">>, Absent}}

InitParse == InitState(AllKeys)

ParseQuoteStart ==
    /\ tasks = <<>>
    /\ StartFetch("quote", AAPL, DefaultRetries)

QuotePayloadResponse(t, payload) ==
    /\ tasks[t].pc = "http"
    /\ tasks[t].op = "quote"
    /\ Commit(fetchSettlePayload(State, t, payload))
    /\ ticked' = FALSE /\ UNCHANGED <<now, env>>

NextParseQuote ==
    \/ ParseQuoteStart
    \/ \E t \in TaskIds, p \in QuotePayloads : QuotePayloadResponse(t, p)

SpecParseQuote == InitParse /\ [][NextParseQuote]_vars

----------------------------------------------------------------------------
(* SpecParseOverview: one fetchFinancialMetrics call answered with an       *)
(* overview payload whose PERatio holds any of the field values (the other  *)
(* optional ratios are read by the same parseFloatOrNull).                  *)

OverviewPayloads ==
    {OverviewPayload(s, pe) : s \in {<<"A">>, Absent}, pe \in FieldValues}

ParseOverviewStart ==
    /\ tasks = <<>>
    /\ StartFetch("metrics", AAPL, DefaultRetries)

OverviewPayloadResponse(t, payload) ==
    /\ tasks[t].pc = "http"
    /\ tasks[t].op = "metrics"
    /\ Commit(metricsSettlePayload(State, t, payload))
    /\ ticked' = FALSE /\ UNCHANGED <<now, env>>

NextParseOverview ==
    \/ ParseOverviewStart
    \/ \E t \in TaskIds, p \in OverviewPayloads : OverviewPayloadResponse(t, p)

SpecParseOverview == InitParse /\ [][NextParseOverview]_vars

----------------------------------------------------------------------------
(* IEEE-754 double arithmetic on the numbers the sentiment code computes.   *)
(* A double is [n, d, e]: the number (n * 2^ExpUnit + e) / (d * 2^ExpUnit), *)
(* that is n/d off by e units of 1/(d * 2^ExpUnit); e is what rounding to   *)
(* 53 significant bits leaves. Quotients below 2^-8 are kept to 2^-ExpUnit. *)

ExpUnit == 60
SignificandBits == 52


RECURSIVE Pow2(_)
Pow2(k) == IF k = 0 THEN 1 ELSE 2 * Pow2(k - 1)

\* 2^x modulo m, eight binary places at a time
RECURSIVE Pow2Mod(_, _)
Pow2Mod(x, m) ==
    IF x < 8 THEN Pow2(x) % m ELSE (Pow2(8) * Pow2Mod(x - 8, m)) % m

Dbl(n, d, e) == [n |-> n, d |-> d, e |-> e]
Abs(x) == IF x < 0 THEN 0 - x ELSE x

\* |(n * 2^ExpUnit + e) / (d * 2^ExpUnit)| >= 2^k
AtLeastPow2(n, d, e, k) ==
    \/ Abs(n) * Pow2(IF k >= 0 THEN 0 ELSE 0 - k) > d * Pow2(IF k >= 0 THEN k ELSE 0)
    \/ /\ Abs(n) * Pow2(IF k >= 0 THEN 0 ELSE 0 - k) = d * Pow2(IF k >= 0 THEN k ELSE 0)
       /\ (IF n > 0 THEN e ELSE 0 - e) >= 0

\* the spacing of the doubles whose binary exponent is the largest of ks, in
\* units of 2^-ExpUnit
UlpOf(ks) ==
    IF ks = {} THEN 1
    ELSE Pow2((CHOOSE x \in ks : \A y \in ks : y <= x) + ExpUnit - SignificandBits)
Ulp(n, d, e) == UlpOf({k \in (0 - 8)..6 : AtLeastPow2(n, d, e, k)})

\* round to nearest, ties to even: r is the excess of the number over the
\* multiple of its ulp below it, M the ulp in units of 1 / (d * 2^ExpUnit)
RoundAt(n, d, e, M, r) ==
    IF r = 0 THEN Dbl(n, d, e)
    ELSE IF 2 * r < M THEN Dbl(n, d, e - r)
    ELSE IF 2 * r > M THEN Dbl(n, d, e - r + M)
    ELSE IF (n * Pow2Mod(ExpUnit, 2 * M) + e - r) % (2 * M) = 0
         THEN Dbl(n, d, e - r)
         ELSE Dbl(n, d, e - r + M)
RoundWith(n, d, e, M) == RoundAt(n, d, e, M, (n * Pow2Mod(ExpUnit, M) + e) % M)
RoundDouble(n, d, e) == RoundWith(n, d, e, d * Ulp(n, d, e))

\* x + y of two doubles in fifths, x / c for a count c, x > y, -x, k / 5
DblAdd(x, y) == RoundDouble(x.n + y.n, x.d, x.e + y.e)
DblDiv(x, c) == RoundDouble(x.n, x.d * c, x.e)
DblGreater(x, y) ==
    \/ x.n * y.d > y.n * x.d
    \/ x.n * y.d = y.n * x.d /\ x.e * y.d > y.e * x.d
DblNeg(x) == Dbl(0 - x.n, x.d, 0 - x.e)
DblOfFifths(k) == RoundDouble(k, 5, 0)
DblZero == Dbl(0, 5, 0)
DblOne == Dbl(5, 5, 0)
\* the literal 0.2
DblFifth == DblOfFifths(1)

----------------------------------------------------------------------------
(* analyzeSentiment and the report of fetchNewsSentiment. A text is a       *)
(* sequence of characters.                                                  *)

positiveWords ==
    <<<<"s", "u", "r", "g", "e">>,
      <<"g", "a", "i", "n">>,
      <<"p", "r", "o", "f", "i", "t">>,
      <<"g", "r", "o", "w", "t", "h">>,
      <<"b", "u", "l", "l", "i", "s", "h">>,
      <<"s", "t", "r", "o", "n", "g">>,
      <<"b", "e", "a", "t">>,
      <<"e", "x", "c", "e", "e", "d">>,
      <<"p", "o", "s", "i", "t", "i", "v", "e">>,
      <<"u", "p">>,
      <<"r", "i", "s", "e">>,
      <<"h", "i", "g", "h">>,
      <<"b", "u", "y">>,
      <<"u", "p", "g", "r", "a", "d", "e">>>>
negativeWords ==
    <<<<"l", "o", "s", "s">>,
      <<"d", "e", "c", "l", "i", "n", "e">>,
      <<"w", "e", "a", "k">>,
      <<"b", "e", "a", "r", "i", "s", "h">>,
      <<"m", "i", "s", "s">>,
      <<"b", "e", "l", "o", "w">>,
      <<"n", "e", "g", "a", "t", "i", "v", "e">>,
      <<"d", "o", "w", "n">>,
      <<"f", "a", "l", "l">>,
      <<"l", "o", "w">>,
      <<"s", "e", "l", "l">>,
      <<"d", "o", "w", "n", "g", "r", "a", "d", "e">>,
      <<"c", "o", "n", "c", "e", "r", "n">>>>

\* toLowerCase on the letters the texts use
toLowerCase(s) ==
    [i \in DOMAIN s |-> IF s[i] = "S" THEN "s" ELSE IF s[i] = "U" THEN "u" ELSE s[i]]

\* text.includes(word)
Includes(text, word) ==
    \E i \in 1..(Len(text) - Len(word) + 1) :
        SubSeq(text, i, i + Len(word) - 1) = word

\* words.forEach(word => { if (lowerText.includes(word)) score += step })
RECURSIVE Tally(_, _, _, _)
Tally(lowerText, words, step, score) ==
    IF words = <<>> THEN score
    ELSE Tally(lowerText, Tail(words), step,
               IF Includes(lowerText, Head(words)) THEN score + step ELSE score)

\* Math.max(-1, Math.min(1, score / 5))
DblMin(x, y) == IF DblGreater(x, y) THEN y ELSE x
DblMax(x, y) == IF DblGreater(y, x) THEN y ELSE x
Normalize(score) == DblMax(DblNeg(DblOne), DblMin(DblOne, DblOfFifths(score)))

\* > 0.2 positive, < -0.2 negative, else neutral
Label(x) ==
    IF DblGreater(x, DblFifth) THEN "positive"
    ELSE IF DblGreater(DblNeg(DblFifth), x) THEN "negative"
    ELSE "neutral"

\* return { sentiment, score: normalizedScore }
Scored(normalizedScore) ==
    [sentiment |-> Label(normalizedScore), score |-> normalizedScore]

\* the number of places at which word occurs in text
Occurrences(text, word) ==
    Cardinality({i \in 1..(Len(text) - Len(word) + 1) :
                    SubSeq(text, i, i + Len(word) - 1) = word})
RECURSIVE TallyAll(_, _, _, _)
TallyAll(lowerText, words, step, score) ==
    IF words = <<>> THEN score
    ELSE TallyAll(lowerText, Tail(words), step,
                  score + step * Occurrences(lowerText, Head(words)))

analyzeSentimentCountAll(text) ==
    Scored(Normalize(TallyAll(toLowerCase(text), negativeWords, 0 - 1,
                              TallyAll(toLowerCase(text), positiveWords, 1, 0))))
analyzeSentiment(text) ==
    Scored(Normalize(Tally(toLowerCase(text), negativeWords, 0 - 1,
                           Tally(toLowerCase(text), positiveWords, 1, 0))))

\* the strings of titles and descriptions
Space == <<" ">>
RECURSIVE JoinWords(_)
JoinWords(ws) ==
    IF ws = <<>> THEN <<>>
    ELSE IF Len(ws) = 1 THEN Head(ws)
    ELSE Head(ws) \o Space \o JoinWords(Tail(ws))

Truthy(str) == str # Absent /\ str # <<>>

\* articles.reduce((sum, article) => sum + (article.sentimentScore || 0), 0)
RECURSIVE TotalScore(_, _)
TotalScore(articles, sum) ==
    IF articles = <<>> THEN sum
    ELSE TotalScore(Tail(articles), DblAdd(sum, Head(articles).sentimentScore))

\* .filter(article => article.title && article.description)
KeptArticles(raw) ==
    SelectSeq(raw, LAMBDA a : Truthy(a.title) /\ Truthy(a.description))
\* .map(article => { ...analyzeSentiment(`${title} ${description}`) ... })
ScoredArticle(a, r) ==
    [title |-> a.title, sentiment |-> r.sentiment, sentimentScore |-> r.score]
ScoreArticles(kept) ==
    [i \in DOMAIN kept |->
        ScoredArticle(kept[i], analyzeSentiment(kept[i].title \o Space \o kept[i].description))]
\* avgScore = articles.length > 0 ? totalScore / articles.length : 0
AvgScore(totalScore, count) ==
    IF count > 0 THEN DblDiv(totalScore, count) ELSE DblZero
ReportOf(articles, avgScore) ==
    [articles |-> articles, overallSentiment |-> Label(avgScore),
     sentimentScore |-> avgScore, articleCount |-> Len(articles)]
ReportOfArticles(articles) ==
    ReportOf(articles, AvgScore(TotalScore(articles, DblZero), Len(articles)))
\* the report fetchNewsSentiment builds from the provider's articles: those
\* with a title and a description are kept and scored, the scores averaged
NewsReport(payload) == ReportOfArticles(ScoreArticles(KeptArticles(payload.articles)))

\* fetchNewsSentiment after the news provider has answered with a payload:
\* an error status throws; else the report is cached and returned
newsCacheAndReturn(st, t, result) ==
    Resolve([st EXCEPT !.newsSentimentCache =
                (st.tasks[t].sym :> [data |-> result, cachedAt |-> now]) @@ @],
            t, result)
newsNoted(st, t, payload) ==
    [st EXCEPT !.tasks[t].last = IF payload.status = "ok" THEN "ok" ELSE "empty",
               !.tasks[t].lookupData = payload]
newsSettlePayload(st, t, payload) ==
    IF payload.status # "ok"
    THEN Reject(newsNoted(st, t, payload), t, "News API returned error status")
    ELSE newsCacheAndReturn(newsNoted(st, t, payload), t, NewsReport(payload))

NewsStart ==
    /\ tasks = <<>>
    /\ StartNews(AAPL)

NewsPayloadResponse(t, payload) ==
    /\ tasks[t].pc = "http"
    /\ tasks[t].op = "news"
    /\ Commit(newsSettlePayload(State, t, payload))
    /\ ticked' = FALSE /\ UNCHANGED <<now, env>>

RECURSIVE SeqsOfLen(_, _)
SeqsOfLen(S, n) ==
    IF n = 0 THEN {<<>>}
    ELSE {Append(q, x) : q \in SeqsOfLen(S, n - 1), x \in S}
RECURSIVE SeqsUpTo(_, _)
SeqsUpTo(S, n) == IF n = 0 THEN {<<>>} ELSE SeqsOfLen(S, n) \cup SeqsUpTo(S, n - 1)

----------------------------------------------------------------------------
(* SpecSentiment: one fetchNewsSentiment call answered with one article     *)
(* whose title is any text of up to MaxWords words of the vocabulary.       *)

Vocabulary ==
    {<<"S", "u", "r", "g", "e">>,
     <<"g", "a", "i", "n">>,
     <<"p", "r", "o", "f", "i", "t">>,
     <<"u", "p", "g", "r", "a", "d", "e">>,
     <<"s", "t", "r", "o", "n", "g", "-", "b", "u", "y">>,
     <<"h", "i", "g", "h", "-", "g", "r", "o", "w", "t", "h">>,
     <<"l", "o", "s", "s">>,
     <<"w", "e", "a", "k">>,
     <<"b", "e", "l", "o", "w">>,
     <<"t", "h", "e">>}

SentimentPayloads ==
    {[status |-> "ok",
      articles |-> <<[title |-> JoinWords(ws), description |-> <<"o", "n">>]>>] :
        ws \in SeqsUpTo(Vocabulary, MaxWords) \ {<<>>}}

NextSentiment ==
    \/ NewsStart
    \/ \E t \in TaskIds, p \in SentimentPayloads : NewsPayloadResponse(t, p)

SpecSentiment == InitParse /\ [][NextSentiment]_vars

----------------------------------------------------------------------------
(* SpecNews: one fetchNewsSentiment call answered with up to MaxArticles    *)
(* articles, each with or without a title and a description.                *)

Titles ==
    {<<"S", "u", "r", "g", "e">>,
     <<"u", "p", "g", "r", "a", "d", "e">>,
     <<"l", "o", "s", "s">>,
     Absent}
Descriptions == {<<"o", "n">>, Absent, <<>>}

NewsPayloads ==
    {[status |-> "error", articles |-> <<>>]} \cup
    {[status |-> "ok", articles |-> as] :
        as \in SeqsUpTo([title : Titles, description : Descriptions], MaxArticles)}

NextNews ==
    \/ NewsStart
    \/ \E t \in TaskIds, p \in NewsPayloads : NewsPayloadResponse(t, p)

SpecNews == InitParse /\ [][NextNews]_vars

----------------------------------------------------------------------------
(* SpecSingle: single-symbol fetches issued one after the other, with or    *)
(* without the credentials configured, against providers that may answer    *)
(* with data, with an empty / error-status payload, or with an HTTP error.  *)

SingleOutcomes == {"ok", "empty", "http5xx", "http404"}

InitSingle ==
    \E a, n \in BOOLEAN : InitState([API_KEY |-> a, NEWS_API_KEY |-> n])

SingleStartFetch ==
    /\ AllSettled
    /\ Cardinality(TopLevel) < MaxSingleCalls
    /\ \E op \in {"quote", "metrics"} : StartFetch(op, AAPL, DefaultRetries)

SingleStartNews ==
    /\ AllSettled
    /\ Cardinality(TopLevel) < MaxSingleCalls
    /\ StartNews(AAPL)

SingleExpire == AllSettled /\ FreeTick(CACHE_TTL_MS)

NextSingle ==
    \/ SingleStartFetch
    \/ SingleStartNews
    \/ \E t \in TaskIds : RateLimitWake(t)
    \/ \E t \in TaskIds : RetryWake(t)
    \/ \E t \in TaskIds, o \in SingleOutcomes : FetchResponse(t, o)
    \/ \E t \in TaskIds, o \in SingleOutcomes : NewsResponse(t, o)
    \/ SingleExpire
    \/ TimerTick

SpecSingle == InitSingle /\ [][NextSingle]_vars

----------------------------------------------------------------------------
(* Properties *)

CallsBy(t) == {c \in calls : c.task = t}
QuotaCalls == {c \in calls : c.api # "NEWS"}
SameKey(t, u) ==
    /\ tasks[t].op = tasks[u].op
    /\ tasks[t].sym = tasks[u].sym
    /\ tasks[t].ind = tasks[u].ind
\* a call that fetched a value upstream and returned it
Fetched(t) == tasks[t].pc = "done" /\ ~tasks[t].hit /\ tasks[t].res # Undefined
\* the time-to-live the specification states for a kind of data
StatedTTL(op) == IF op = "news" THEN 15 * 60 * 1000 ELSE 5 * 60 * 1000

IndTasks == {t \in TaskIds : tasks[t].op = "ind"}
CallsOf(ts) == {c \in calls : c.task \in ts}

\* C1: a fetchSingleIndicator call u that starts while other calls of the
\* same (symbol, indicator) are unresolved makes no upstream call of its
\* own; the callers together make at most one upstream call, exactly one
\* once u has settled, and all of them settle alike with the same value.
C1_ConcurrentCallersShareOneCall ==
    \A u \in IndTasks :
        tasks[u].overlap # {} =>
            /\ ~tasks[u].hit
            /\ CallsBy(u) = {}
            /\ Cardinality(CallsOf(tasks[u].overlap)) <= 1
            /\ tasks[u].pc \in Settled =>
                  /\ Cardinality(CallsOf(tasks[u].overlap)) = 1
                  /\ \A t \in tasks[u].overlap :
                        /\ tasks[t].pc = tasks[u].pc
                        /\ tasks[t].res = tasks[u].res
                        /\ tasks[t].err = tasks[u].err

\* C1 witness: a caller joined an unresolved call of its key and both
\* returned the value the provider sent.
C1_Witness ==
    \E u \in IndTasks :
        /\ tasks[u].overlap # {}
        /\ tasks[u].pc = "done"
        /\ tasks[u].res > 0

\* C2: a fetchStockQuote, fetchFinancialMetrics or fetchNewsSentiment call
\* that starts while another call of the same symbol is unresolved joins it
\* and makes no upstream call of its own.
C2_ConcurrentFetchJoins ==
    \A u \in TaskIds :
        (tasks[u].op \in {"quote", "metrics", "news"} /\ tasks[u].overlap # {})
            => CallsBy(u) = {}

\* C3: for every (symbol, indicator) key at most one upstream call is in
\* flight.
C3_OneUpstreamCallPerKey ==
    \A t, u \in IndTasks :
        (t # u /\ SameKey(t, u)) => ~(tasks[t].pc = "http" /\ tasks[u].pc = "http")

\* C3 witness: the entry of a key has expired, its refetch is in flight and
\* a second caller waits for it.
C3_Witness ==
    \E t, u \in IndTasks :
        /\ tasks[t].pc = "http" /\ tasks[t].lookupAge >= CACHE_TTL_MS
        /\ tasks[u].pc = "join" /\ tasks[u].cur = t

\* C4: any two upstream calls to the quota-limited provider are at least
\* 12 s apart, so N of them span at least (N - 1) intervals.
C4_QuotaCallsPaced ==
    /\ \A c, d \in QuotaCalls : (c # d) => (c.at - d.at >= 12000 \/ d.at - c.at >= 12000)
    /\ \A c, d \in QuotaCalls :
          (\A e \in QuotaCalls : c.at <= e.at /\ e.at <= d.at)
              => d.at - c.at >= (Cardinality(QuotaCalls) - 1) * 12000

\* C5: when quota-limited fetches are issued strictly one after another,
\* any two of their upstream calls are at least 12 s apart.
C5_SequentialCallsPaced ==
    \A c, d \in QuotaCalls :
        (c # d /\ c.at <= d.at) => d.at - c.at >= 12000

\* C5 witness: a fetch that had to sleep in the rate limiter has made its
\* upstream call after an earlier quota-limited call.
C5_Witness ==
    \E c, d \in QuotaCalls :
        /\ c.at < d.at
        /\ tasks[d.task].waited > 0
        /\ tasks[d.task].pc = "done"

C7_ServedIffFresh ==
    \A t \in TaskIds :
        tasks[t].op \in {"quote", "metrics", "news", "ind"} =>
            /\ tasks[t].hit <=>
                  (tasks[t].lookupAge >= 0 /\ tasks[t].lookupAge < StatedTTL(tasks[t].op))
            /\ tasks[t].hit =>
                  /\ tasks[t].pc = "done"
                  /\ tasks[t].res = tasks[t].lookupData
                  /\ CallsBy(t) = {}
            /\ (~tasks[t].hit /\ tasks[t].pc = "done") =>
                  /\ CallsBy(t) # {}
                  /\ tasks[t].res # tasks[t].lookupData

\* C7 witness: a news entry older than 5 min and younger than 15 min was
\* served, and an entry whose age equals its TTL was refetched.
C7_Witness ==
    \E t, u \in TaskIds :
        /\ tasks[t].op = "news" /\ tasks[t].hit
        /\ tasks[t].lookupAge >= 5 * 60 * 1000
        /\ tasks[u].lookupAge = StatedTTL(tasks[u].op)
        /\ Fetched(u)

CompareTasks == {t \in TaskIds : tasks[t].op = "compare"}
FetchTasks == {t \in TaskIds : tasks[t].op \in {"quote", "metrics"}}
\* the per-symbol tasks of a comparison whose two fetches both succeeded
Succeeded(c) == {w \in tasks[c].kids : \A k \in tasks[w].kids : tasks[k].pc = "done"}

\* C8: compareStocks never throws, and the key set of the map it returns
\* is the set of requested symbols whose quote fetch and fundamentals fetch
\* both succeeded (empty when every symbol failed), each with the values
\* those two fetches returned.
C8_CompareNeverThrows ==
    \A c \in CompareTasks :
        /\ tasks[c].pc # "failed"
        /\ \A w \in tasks[c].kids : tasks[w].pc # "failed"
        /\ tasks[c].pc = "done" =>
              /\ DOMAIN tasks[c].got = {tasks[w].sym : w \in Succeeded(c)}
              /\ \A w \in Succeeded(c) : \A k \in tasks[w].kids :
                    /\ tasks[k].op = "quote" =>
                          tasks[c].got[tasks[w].sym].price = tasks[k].res
                    /\ tasks[k].op = "metrics" =>
                          tasks[c].got[tasks[w].sym].marketCap = tasks[k].res

\* C8 witness: a comparison returned one of its two symbols; a fetch of the
\* other one gave up after its retries on a network that never answered.
C8_Witness ==
    \E c \in CompareTasks :
        /\ tasks[c].pc = "done"
        /\ DOMAIN tasks[c].got = {AAPL}
        /\ \E k \in FetchTasks :
              /\ tasks[k].pc = "failed"
              /\ tasks[k].sym = MSFT
              /\ tasks[k].transient = 4

\* the cache a quote or metrics call reads and writes
CacheOfTask(t) == IF tasks[t].op = "quote" THEN quoteCache ELSE metricsCache

\* C9: a quote/metrics call does not give up on a transient failure while
\* it has failed at most 3 times (it gives up on the 4th); the attempt
\* that succeeds after k <= 3 transient failures is attempt k + 1, and its
\* value is returned and stored in the cache with the time of the answer.
C9_TransientThenSuccess ==
    \A t \in FetchTasks :
        /\ (tasks[t].pc = "failed" /\ tasks[t].last \in Transient)
              => tasks[t].transient = 4
        /\ tasks[t].last = "ok" =>
              /\ tasks[t].transient <= 3
              /\ tasks[t].pc = "done"
              /\ Cardinality(CallsBy(t)) = tasks[t].transient + 1
              /\ tasks[t].res = DataOf(t, tasks[t].transient + 1)
              /\ tasks[t].sym \in DOMAIN CacheOfTask(t)
              /\ CacheOfTask(t)[tasks[t].sym] =
                    [data |-> tasks[t].res, cachedAt |-> tasks[t].settledAt]

\* C9 witness: a call failed three times with a transient error, succeeded
\* on the fourth attempt and its value is in the cache.
C9_Witness ==
    \E t \in FetchTasks :
        /\ tasks[t].transient = 3
        /\ tasks[t].pc = "done"
        /\ tasks[t].last = "ok"
        /\ CacheOfTask(t)[tasks[t].sym].data = tasks[t].res

Permanent == {"http404", "http4xx", "empty"}

\* C10: a quote/metrics call whose first failure is permanent (a 4xx
\* status or an empty payload) has made exactly one upstream call, has
\* taken no retry pause, and has failed with an error, no later than the
\* answer to that one call.
C10_PermanentFailsAtOnce ==
    \A t \in FetchTasks :
        (tasks[t].last \in Permanent /\ tasks[t].transient = 0) =>
            /\ tasks[t].pc = "failed"
            /\ tasks[t].err # ""
            /\ tasks[t].pauses = 0
            /\ Cardinality(CallsBy(t)) = 1
            /\ \A c \in CallsBy(t) : tasks[t].settledAt <= c.at + 10000

\* C10 witness: a call answered 404 and a call answered with an empty
\* payload have both failed after their only upstream call.
C10_Witness ==
    \E t, u \in FetchTasks :
        /\ tasks[t].last = "http404" /\ tasks[t].pc = "failed"
        /\ tasks[u].last = "empty" /\ tasks[u].pc = "failed"
        /\ Cardinality(CallsBy(t)) = 1 /\ Cardinality(CallsBy(u)) = 1

\* C11: a quote/metrics call makes at most retries + 1 = 4 upstream
\* attempts; one that ends on a transient error has made exactly 4, taken
\* 3 pauses and failed with an error; and, every upstream call and timed
\* wait settling, every started call eventually settles (the calls are
\* all settled again and again, and a settled call stays settled).
C11_RetriesExhaust ==
    /\ [](\A t \in FetchTasks :
            /\ Cardinality(CallsBy(t)) <= DefaultRetries + 1
            /\ (tasks[t].pc = "failed" /\ tasks[t].last \in Transient) =>
                  /\ Cardinality(CallsBy(t)) = DefaultRetries + 1
                  /\ tasks[t].pauses = DefaultRetries
                  /\ tasks[t].err # "")
    /\ []<>AllSettled

\* C11 witness: a call has failed after four attempts that all ended in
\* HTTP 5xx or no response, the last one in a 5xx.
C11_Witness ==
    \E t \in FetchTasks :
        /\ tasks[t].pc = "failed"
        /\ tasks[t].last = "http5xx"
        /\ tasks[t].transient = DefaultRetries + 1
        /\ Cardinality(CallsBy(t)) = DefaultRetries + 1

\* C12 (as stated): within one quote/metrics call the rate limiter is
\* acquired (lastRequestTime written) at most once, whatever the retries.
C12_LimiterAcquiredOnce ==
    \A t \in FetchTasks : tasks[t].acquires <= 1

\* C12 (amended): every upstream attempt of a quote/metrics call, retried
\* ones included, passes respectRateLimit first: the call has acquired the
\* limiter once per attempt, lastRequestTime is the time of the latest
\* attempt, and a retried attempt leaves at least 12 s after the one before.
C12_LimiterAcquiredPerAttempt ==
    /\ \A t \in FetchTasks :
          /\ tasks[t].acquires = Cardinality(CallsBy(t))
          /\ tasks[t].pc = "http" => tasks[t].acquires = tasks[t].pauses + 1
          /\ \A c, d \in CallsBy(t) :
                (c.n < d.n) => d.at - c.at >= RATE_LIMIT_DELAY_MS
    /\ \A c \in QuotaCalls : c.at <= lastRequestTime
    /\ (QuotaCalls # {}) => \E c \in QuotaCalls : c.at = lastRequestTime

\* C12 witness: a call that was retried twice has acquired the limiter
\* three times, and had to sleep in it before a retried attempt.
C12_Witness ==
    \E t \in FetchTasks :
        /\ tasks[t].pauses = 2
        /\ tasks[t].acquires = 3
        /\ tasks[t].waited > 0
        /\ tasks[t].pc = "done"

\* C13: a fetchSingleIndicator or fetchNewsSentiment call does not fail on
\* its first transient failure (no response or HTTP 5xx): it makes a second
\* upstream attempt.
C13_IndicatorAndNewsRetry ==
    \A t \in TaskIds :
        (/\ tasks[t].op \in {"ind", "news"}
         /\ tasks[t].pc = "failed"
         /\ tasks[t].last \in Transient)
            => Cardinality(CallsBy(t)) >= 2

IndSetTasks == {t \in TaskIds : tasks[t].op = "indset"}
\* the fetchSingleIndicator calls of t that returned a value
Valued(t) == {k \in tasks[t].kids : tasks[k].pc = "done" /\ tasks[k].res # Undefined}

\* C14: with the credential configured fetchTechnicalIndicators never
\* throws; when it returns, fetchSingleIndicator has been called for every
\* requested indicator (also those listed after a failed one), and the
\* result holds exactly the indicators whose call returned a value, each
\* with that value.
C14_IndicatorSetNeverThrows ==
    \A t \in IndSetTasks :
        /\ tasks[t].pc # "failed"
        /\ tasks[t].pc = "done" =>
              /\ Cardinality(tasks[t].kids) = Len(tasks[t].args)
              /\ {tasks[k].ind : k \in tasks[t].kids} =
                    {tasks[t].args[i] : i \in DOMAIN tasks[t].args}
              /\ DOMAIN tasks[t].got = {tasks[k].ind : k \in Valued(t)}
              /\ \A k \in Valued(t) : tasks[t].got[tasks[k].ind] = tasks[k].res

\* C14 witness: of [RSI, SMA50] the RSI call failed upstream, SMA50 was
\* fetched after it and is the only field of the returned result.
C14_Witness ==
    \E t \in IndSetTasks :
        /\ tasks[t].pc = "done"
        /\ tasks[t].args = <<"RSI", "SMA50">>
        /\ DOMAIN tasks[t].got = {"SMA50"}
        /\ \E k, j \in tasks[t].kids :
              /\ tasks[k].ind = "RSI" /\ tasks[k].pc = "failed"
              /\ Cardinality(CallsBy(k)) = 1
              /\ tasks[j].ind = "SMA50" /\ tasks[j].startedAt >= tasks[k].settledAt

SingleTasks == {t \in TaskIds : tasks[t].op \in {"quote", "metrics", "news"}}

\* C15: a fetchStockQuote, fetchFinancialMetrics or fetchNewsSentiment
\* call that has returned normally returned either the fresh cache entry
\* its lookup found (and then made no upstream call) or the data of its
\* own successful upstream response; in every other case (credential not
\* set, empty payload, HTTP error, retries exhausted) a settled call has
\* thrown an error.
C15_ValueOrThrow ==
    \A t \in SingleTasks :
        /\ tasks[t].pc = "done" =>
              \/ /\ tasks[t].hit
                 /\ tasks[t].res = tasks[t].lookupData
                 /\ tasks[t].lookupAge >= 0
                 /\ tasks[t].lookupAge < StatedTTL(tasks[t].op)
                 /\ tasks[t].last \in {"", "http5xx"}
              \/ /\ ~tasks[t].hit
                 /\ tasks[t].last = "ok"
                 /\ \E c \in CallsBy(t) : tasks[t].res = DataOf(t, c.n)
        /\ tasks[t].pc = "failed" =>
              /\ tasks[t].err # ""
              /\ tasks[t].res = NoValue
        /\ tasks[t].pc \in Settled =>
              (tasks[t].pc = "done" <=> (tasks[t].hit \/ tasks[t].last = "ok"))

\* C15 witness: one call failed because its credential is not set, without
\* an upstream call, and another call failed on an empty payload.
C15_Witness ==
    \E t, u \in SingleTasks :
        /\ tasks[t].pc = "failed" /\ CallsBy(t) = {}
        /\ tasks[u].pc = "failed" /\ tasks[u].last = "empty"

\* C16: a quote that fetchStockQuote returns, and a quote in the quote
\* cache, has a price and a volume that are numbers: a non-empty payload
\* whose price or volume cannot be parsed makes the call fail.
C16_UnparseableQuoteFails ==
    /\ \A t \in TaskIds :
          (tasks[t].op = "quote" /\ tasks[t].pc = "done") =>
              (~tasks[t].res.price.nan /\ ~tasks[t].res.volume.nan)
    /\ \A k \in DOMAIN quoteCache :
          ~quoteCache[k].data.price.nan /\ ~quoteCache[k].data.volume.nan

\* what a decimal numeral is, read off the string as a whole
AllDigits(s) == \A i \in DOMAIN s : s[i] \in DigitChars
Unsigned(s) == IF s # <<>> /\ Head(s) = "-" THEN Tail(s) ELSE s
\* digits, or digits "." digits
IsNumeral(s) ==
    LET u == Unsigned(s) IN
    \/ u # <<>> /\ AllDigits(u)
    \/ \E i \in DOMAIN u :
          /\ u[i] = "."
          /\ i > 1 /\ i < Len(u)
          /\ AllDigits(SubSeq(u, 1, i - 1)) /\ AllDigits(SubSeq(u, i + 1, Len(u)))
\* the same, the digits before or after the point may be missing ("5.", ".5")
IsLiteral(s) ==
    LET u == Unsigned(s) IN
    \/ u # <<>> /\ AllDigits(u)
    \/ \E i \in DOMAIN u :
          /\ u[i] = "."
          /\ Len(u) > 1
          /\ AllDigits(SubSeq(u, 1, i - 1)) /\ AllDigits(SubSeq(u, i + 1, Len(u)))
\* the number a literal denotes, in units
ValueOf(s) ==
    LET u == Unsigned(s)
        dot == {i \in DOMAIN u : u[i] = "."}
        i == IF dot = {} THEN Len(u) + 1 ELSE CHOOSE j \in dot : TRUE
        a == IntOf(SubSeq(u, 1, i - 1)) * FracScale + FracOf(SubSeq(u, i + 1, Len(u)))
    IN IF s # <<>> /\ Head(s) = "-" THEN 0 - a ELSE a
\* the prefixes of s that are literals
LiteralPrefixes(s) ==
    IF s \in {Absent, NoneStr} THEN {}
    ELSE {k \in 1..Len(s) : IsLiteral(SubSeq(s, 1, k))}
Longest(ks) == CHOOSE k \in ks : \A j \in ks : j <= k

MetricsDone == {t \in TaskIds : tasks[t].op = "metrics" /\ tasks[t].pc = "done"}

\* C17 (as stated): an optional ratio whose upstream value is absent,
\* empty, "None", "-" or not a numeral parses to null, and a numeral parses
\* to its number.
C17_NonNumericIsNull ==
    \A t \in MetricsDone :
        LET v == tasks[t].lookupData.PERatio
            r == tasks[t].res.peRatio
        IN /\ (v \in {Absent, NoneStr} \/ ~IsLiteral(v)) => r = Null
           /\ (v \notin {Absent, NoneStr} /\ IsNumeral(v)) => r = Num(ValueOf(v))

\* C17 (amended): an optional ratio parses to null, never to 0, exactly
\* when its upstream value is absent, empty, "None", "-" or does not start
\* with a decimal literal; otherwise it parses to the number of the longest
\* literal the value starts with, so a numeral parses to its own number;
\* the cache holds the same parsed value.
C17_RatioNullOrLeadingNumber ==
    \A t \in MetricsDone :
        LET v == tasks[t].lookupData.PERatio
            r == tasks[t].res.peRatio
            ks == LiteralPrefixes(v)
        IN /\ (ks = {}) <=> (r = Null)
           /\ (ks # {}) => r = Num(ValueOf(SubSeq(v, 1, Longest(ks))))
           /\ (v \notin {Absent, NoneStr} /\ IsNumeral(v)) => r = Num(ValueOf(v))
           /\ metricsCache[tasks[t].sym].data.peRatio = r

\* C17 witness: a payload with PERatio "None" was parsed to peRatio null.
C17_Witness ==
    \E t \in MetricsDone :
        /\ tasks[t].lookupData.PERatio = NoneStr
        /\ tasks[t].res.peRatio = Null

----------------------------------------------------------------------------
(* C18: the sentiment of a text, stated on the text itself.                 *)

\* word occurs in text, letter case ignored
Occurs(word, text) ==
    \E i \in 0..Len(text) :
        /\ i + Len(word) <= Len(text)
        /\ \A j \in 1..Len(word) : toLowerCase(<<text[i + j]>>) = <<word[j]>>
KeywordsPresent(words, text) == {i \in 1..Len(words) : Occurs(words[i], text)}
KeywordTally(text) ==
    Cardinality(KeywordsPresent(positiveWords, text))
        - Cardinality(KeywordsPresent(negativeWords, text))
ClampFifths(tally) == IF tally > 5 THEN 5 ELSE IF tally < 0 - 5 THEN 0 - 5 ELSE tally

\* the news calls that scored the articles of their own response
NewsScored == {t \in TaskIds : /\ tasks[t].op = "news"
                               /\ tasks[t].pc = "done"
                               /\ ~tasks[t].hit}
ArticleText(a) == a.title \o Space \o a.description

\* C18: the score of a text is its tally (the number of distinct positive
\* keywords it contains less the number of distinct negative keywords it
\* contains) over 5, clamped to [-1, 1], as the nearest double; the label is
\* positive exactly when the score is above 0.2, which is a tally of at least
\* 2, negative exactly when it is below -0.2, a tally of at most -2, and
\* neutral otherwise.
C18_SentimentOfText ==
    \A t \in NewsScored :
        \A i \in DOMAIN tasks[t].res.articles :
            LET text == ArticleText(tasks[t].lookupData.articles[i])
                tally == KeywordTally(text)
                a == tasks[t].res.articles[i]
            IN /\ a.sentimentScore.n = ClampFifths(tally)
               /\ a.sentimentScore.d = 5
               /\ 2 * Abs(a.sentimentScore.e) <= 5 * Pow2(ExpUnit - SignificandBits)
               /\ DblGreater(a.sentimentScore, DblFifth) <=> tally >= 2
               /\ DblGreater(DblNeg(DblFifth), a.sentimentScore) <=> tally <= 0 - 2
               /\ a.sentiment = (IF tally >= 2 THEN "positive"
                                 ELSE IF tally <= 0 - 2 THEN "negative"
                                 ELSE "neutral")

\* C18 witness: a text with three positive keywords was scored 0.6 and
\* labelled positive.
C18_Witness ==
    \E t \in NewsScored :
        /\ tasks[t].lookupData.articles[1].title
              = JoinWords(<<<<"S", "u", "r", "g", "e">>, <<"g", "a", "i", "n">>,
                            <<"p", "r", "o", "f", "i", "t">>>>)
        /\ tasks[t].res.articles[1].sentimentScore.n = 3
        /\ tasks[t].res.articles[1].sentiment = "positive"

\* a text with two positive and two negative keywords was scored 0 and
\* labelled neutral
C18_WitnessBalanced ==
    \E t \in NewsScored :
        /\ tasks[t].lookupData.articles[1].title
              = JoinWords(<<<<"s", "t", "r", "o", "n", "g", "-", "b", "u", "y">>,
                            <<"l", "o", "s", "s">>, <<"w", "e", "a", "k">>>>)
        /\ tasks[t].res.articles[1].sentimentScore = DblZero
        /\ tasks[t].res.articles[1].sentiment = "neutral"

\* a text with more than five positive keywords was scored 1
C18_WitnessClamped ==
    \E t \in NewsScored :
        /\ KeywordTally(ArticleText(tasks[t].lookupData.articles[1])) > 5
        /\ tasks[t].res.articles[1].sentimentScore = DblOne

----------------------------------------------------------------------------
(* C19: the report of fetchNewsSentiment, stated on the provider's          *)
(* articles.                                                                *)

\* the places of the provider's articles that have a title and a description
KeptPlaces(raw) ==
    {i \in DOMAIN raw : /\ raw[i].title \notin {Absent, <<>>}
                        /\ raw[i].description \notin {Absent, <<>>}}
\* the sum of the clamped tallies of the kept articles
RECURSIVE TallySum(_, _)
TallySum(raw, places) ==
    IF places = {} THEN 0
    ELSE LET i == CHOOSE x \in places : TRUE
         IN ClampFifths(KeywordTally(ArticleText(raw[i])))
                + TallySum(raw, places \ {i})

\* C19: the report counts the articles that have both a title and a
\* description and lists them in the provider's order; its score is the mean
\* of their scores (the sum of the tallies over five times the count, to
\* within the rounding of double arithmetic), 0 when no article is kept, and
\* lies in [-1, 1]; its label is positive when the mean of the scores is
\* above 0.2 (the tallies sum to more than the count), negative when it is
\* below -0.2, neutral otherwise.
C19_ReportIsMeanOfKept ==
    \A t \in NewsScored :
        LET raw == tasks[t].lookupData.articles
            kept == KeptPlaces(raw)
            report == tasks[t].res
            score == report.sentimentScore
        IN /\ report.articleCount = Cardinality(kept)
           /\ Len(report.articles) = Cardinality(kept)
           /\ \A i \in kept :
                 report.articles[Cardinality({k \in kept : k <= i})].title = raw[i].title
           /\ kept = {} => score = DblZero
           /\ kept # {} =>
                 /\ score.n = TallySum(raw, kept)
                 /\ score.d = 5 * Cardinality(kept)
                 /\ Abs(score.e) <= score.d * Pow2(ExpUnit - SignificandBits + 2)
           /\ ~DblGreater(score, DblOne)
           /\ ~DblGreater(DblNeg(DblOne), score)
           /\ report.overallSentiment =
                 (IF TallySum(raw, kept) > Cardinality(kept) THEN "positive"
                  ELSE IF TallySum(raw, kept) < 0 - Cardinality(kept) THEN "negative"
                  ELSE "neutral")

\* every part of the report but the label at the threshold: count, order,
\* the score as the mean within rounding and within [-1, 1], and the label as
\* the thresholds applied to the reported score
C19_ReportButThreshold ==
    \A t \in NewsScored :
        LET raw == tasks[t].lookupData.articles
            kept == KeptPlaces(raw)
            report == tasks[t].res
            score == report.sentimentScore
        IN /\ report.articleCount = Cardinality(kept)
           /\ \A i \in kept :
                 report.articles[Cardinality({k \in kept : k <= i})].title = raw[i].title
           /\ kept = {} => score = DblZero
           /\ kept # {} =>
                 /\ score.n = TallySum(raw, kept)
                 /\ score.d = 5 * Cardinality(kept)
                 /\ Abs(score.e) <= score.d * Pow2(ExpUnit - SignificandBits + 2)
           /\ ~DblGreater(score, DblOne)
           /\ ~DblGreater(DblNeg(DblOne), score)
           /\ report.overallSentiment =
                 (IF DblGreater(score, DblFifth) THEN "positive"
                  ELSE IF DblGreater(DblNeg(DblFifth), score) THEN "negative"
                  ELSE "neutral")
           /\ Abs(TallySum(raw, kept)) # Cardinality(kept) =>
                 report.overallSentiment =
                    (IF TallySum(raw, kept) > Cardinality(kept) THEN "positive"
                     ELSE IF TallySum(raw, kept) < 0 - Cardinality(kept) THEN "negative"
                     ELSE "neutral")

\* of three articles the provider sent, the one without a
\* description was dropped and the two kept, scored 0.4 and -0.2, gave a
\* report of two articles with mean 0.1, neutral.
C19_MeanOfKeptReached ==
    \E t \in NewsScored :
        /\ Len(tasks[t].lookupData.articles) = 3
        /\ tasks[t].lookupData.articles[1].title = <<"u", "p", "g", "r", "a", "d", "e">>
        /\ tasks[t].lookupData.articles[2].description = Absent
        /\ tasks[t].lookupData.articles[3].title = <<"l", "o", "s", "s">>
        /\ tasks[t].res.articleCount = 2
        /\ tasks[t].res.sentimentScore.n = 1
        /\ tasks[t].res.sentimentScore.d = 10
        /\ tasks[t].res.overallSentiment = "neutral"

\* three kept articles that score 0.2 each: the additions round the sum up
\* to 0.6000000000000001, so the mean is reported as 0.20000000000000004 and
\* the report is labelled positive
C19_RoundedMeanReached ==
    \E t \in NewsScored :
        /\ tasks[t].res.articleCount = 3
        /\ \A i \in 1..3 : tasks[t].res.articles[i].sentimentScore = DblFifth
        /\ tasks[t].res.sentimentScore.n = 3
        /\ tasks[t].res.sentimentScore.d = 15
        /\ tasks[t].res.sentimentScore.e > 0
        /\ tasks[t].res.overallSentiment = "positive"

----------------------------------------------------------------------------
(* SpecCase: fetches issued one after the other with symbols in any letter  *)
(* case, answered with data, with time passing between them.                *)

CaseSteps == {RATE_LIMIT_DELAY_MS, CACHE_TTL_MS, NEWS_CACHE_TTL_MS - CACHE_TTL_MS}

InitCase == InitState(AllKeys)

CaseStartFetch ==
    /\ AllSettled
    /\ Cardinality(TopLevel) < MaxCaseCalls
    /\ \E op \in {"quote", "metrics"}, symbol \in RawSymbols :
          StartFetch(op, symbol, DefaultRetries)

CaseStartNews ==
    /\ AllSettled
    /\ Cardinality(TopLevel) < MaxCaseCalls
    /\ \E symbol \in RawSymbols : StartNews(symbol)

CaseStartIndicators ==
    /\ AllSettled
    /\ Cardinality(TopLevel) < MaxCaseCalls
    /\ \E symbol \in RawSymbols : StartIndicators(symbol, <<"RSI", "MACD">>)

CaseTick == \E d \in CaseSteps : AllSettled /\ FreeTick(d)

NextCase ==
    \/ CaseStartFetch
    \/ CaseStartNews
    \/ CaseStartIndicators
    \/ \E t \in TaskIds : RateLimitWake(t)
    \/ \E t \in TaskIds : FetchResponse(t, "ok")
    \/ \E t \in TaskIds : NewsResponse(t, "ok")
    \/ \E t \in TaskIds : IndicatorResponse(t, "ok")
    \/ CaseTick
    \/ TimerTick

SpecCase == InitCase /\ [][NextCase]_vars

\* two symbols that differ in letter case at most
SameButCase(a, b) ==
    /\ Len(a) = Len(b)
    /\ \A i \in 1..Len(a) :
          \/ a[i] = b[i]
          \/ \E j \in DOMAIN LowerLetters : {a[i], b[i]} = {LowerLetters[j], UpperLetters[j]}

\* the calls a caller made, and the tasks that looked a cache up for call t:
\* the call itself, or the indicator fetches of a fetchTechnicalIndicators
CallerCalls == {t \in TopLevel : tasks[t].op \in {"quote", "metrics", "news", "indset"}}
LookupsOf(t) == IF tasks[t].op = "indset" THEN tasks[t].kids ELSE {t}
\* call t succeeded by fetching every value from the provider
FetchedAll(t) ==
    /\ tasks[t].pc = "done"
    /\ \A k \in LookupsOf(t) : Fetched(k)
    /\ tasks[t].op = "indset" => Len(tasks[t].args) = Cardinality(tasks[t].kids)
\* the earliest moment a value of call t was cached
FirstCachedAt(t) ==
    CHOOSE x \in {tasks[k].settledAt : k \in LookupsOf(t)} :
        \A y \in {tasks[k].settledAt : k \in LookupsOf(t)} : x <= y

\* C20: a symbol is upper-cased before use: of two calls of the same kind
\* whose symbols differ in letter case at most, the second, issued within
\* the TTL after the first has succeeded, uses the cache keys of the first,
\* is served from the cache with the values of the first, and makes no
\* upstream call.
C20_CaseInsensitiveCacheKey ==
    \A t, u \in CallerCalls :
        (/\ t < u
         /\ tasks[t].op = tasks[u].op
         /\ tasks[t].args = tasks[u].args
         /\ SameButCase(tasks[t].symbol, tasks[u].symbol)
         /\ FetchedAll(t)
         /\ tasks[u].startedAt - FirstCachedAt(t) < StatedTTL(tasks[t].op)
         /\ tasks[u].pc \in Settled)
        => /\ tasks[u].sym = tasks[t].sym
           /\ {KeyOf(tasks[k]) : k \in LookupsOf(u)} = {KeyOf(tasks[k]) : k \in LookupsOf(t)}
           /\ tasks[u].pc = "done"
           /\ \A k \in LookupsOf(u) : tasks[k].hit /\ CallsBy(k) = {}
           /\ tasks[u].op = "indset" => tasks[u].got = tasks[t].got
           /\ tasks[u].op # "indset" => tasks[u].res = tasks[t].res

\* C20 witness: a quote fetched for AAPL was served from the cache to a
\* later call for aapl.
C20_Witness ==
    \E t, u \in CallerCalls :
        /\ t < u
        /\ tasks[t].symbol = AAPL /\ tasks[u].symbol = <<"a", "a", "p", "l">>
        /\ tasks[t].op = "quote" /\ tasks[u].op = "quote"
        /\ FetchedAll(t) /\ tasks[u].hit /\ tasks[u].pc = "done"

\* the indicators fetched for aapl were served from the cache to a later
\* call for Aapl
C20_WitnessIndicators ==
    \E t, u \in CallerCalls :
        /\ t < u
        /\ tasks[t].symbol = <<"a", "a", "p", "l">>
        /\ tasks[u].symbol = <<"A", "a", "p", "l">>
        /\ tasks[t].op = "indset" /\ tasks[u].op = "indset"
        /\ FetchedAll(t) /\ tasks[u].pc = "done"
        /\ tasks[u].kids # {}
        /\ \A k \in tasks[u].kids : tasks[k].hit

----------------------------------------------------------------------------
(* C21: the pauses of the retries.                                          *)

\* C21: exponential backoff: within one fetchStockQuote or
\* fetchFinancialMetrics call every retry pause is longer than the pause
\* before it.
C21_BackoffGrows ==
    \A t \in FetchTasks :
        \A k \in 1..(Len(tasks[t].pauseLog) - 1) :
            tasks[t].pauseLog[k] < tasks[t].pauseLog[k + 1]

\* every retry pause lasts the same 2 s, whatever the number of the retry
C21_PausesAreConstant ==
    \A t \in FetchTasks :
        /\ Len(tasks[t].pauseLog) = tasks[t].pauses
        /\ \A k \in DOMAIN tasks[t].pauseLog : tasks[t].pauseLog[k] = 2000

\* a call went through its three retries
C21_ThreePausesReached ==
    \E t \in FetchTasks : Len(tasks[t].pauseLog) = DefaultRetries

----------------------------------------------------------------------------
(* C22: what concurrent callers observe at the rate limiter.                *)

\* the passages through respectRateLimit: what each one observed
GatePassages ==
    UNION {{[task |-> t, k |-> k, seen |-> tasks[t].gateLog[k].seen,
             open |-> tasks[t].gateLog[k].open] :
               k \in DOMAIN tasks[t].gateLog} : t \in TaskIds}
\* the upstream call that followed a passage
CallAfter(p) == {c \in QuotaCalls : c.task = p.task /\ c.n = p.k}
\* two callers observed the same lastRequestTime (neither had updated it
\* when the other read it), both found the gate open, and both proceeded
BothObservedOpen ==
    \E p, q \in GatePassages :
        /\ p # q
        /\ p.seen = q.seen
        /\ p.open /\ q.open
        /\ CallAfter(p) # {} /\ CallAfter(q) # {}

----------------------------------------------------------------------------
(* C23, C24: the life of an in-flight registry entry.                       *)

\* the indicator calls that run their own fetch, and those that joined one
Fetching == {t \in IndTasks : tasks[t].pc \in {"rlwait", "http"}}
Joined == {t \in IndTasks : tasks[t].cur # 0}
JoinersOf(t) == {j \in Joined : tasks[j].cur = t}

\* the registry holds, for each key, the running fetch of that key
RegistryIsRunningFetches ==
    /\ \A t \in Fetching :
          /\ KeyOf(tasks[t]) \in DOMAIN inflightRequests
          /\ inflightRequests[KeyOf(tasks[t])] = t
    /\ \A key \in DOMAIN inflightRequests : inflightRequests[key] \in Fetching
    /\ AllSettled => inflightRequests = <<>>

\* a call joins only a fetch that was running when the call was made; a call
\* that neither hit the cache nor joined runs its own fetch
JoinOnlyRunning ==
    \A u \in IndTasks :
        /\ u \in Joined => tasks[u].cur \in tasks[u].overlap
        /\ (u \notin Joined /\ ~tasks[u].hit) =>
              /\ Len(tasks[u].gateLog) = 1
              /\ (tasks[u].pc \in Settled => Cardinality(CallsBy(u)) = 1)

\* an entry leaves the registry in the step in which its task settles, and
\* only then; the callers that joined the task settle in that step too
RemovedOnSettlement ==
    \A key \in DOMAIN inflightRequests :
        LET t == inflightRequests[key]
            gone == key \notin DOMAIN inflightRequests' \/ inflightRequests'[key] # t
        IN /\ gone <=> tasks'[t].pc \in Settled
           /\ gone => \A j \in JoinersOf(t) : tasks'[j].pc = tasks'[t].pc

\* C23: the registry entry of a key is present from the registration of the
\* fetching task until that task settles and is removed in the step in
\* which it settles, whether it succeeded or failed and however many
\* callers joined; with no indicator fetch running the registry is empty,
\* and a later request for the key starts a new upstream call.
C23_RegistryEntryLifetime ==
    /\ [](RegistryIsRunningFetches /\ JoinOnlyRunning)
    /\ [][RemovedOnSettlement]_vars

\* C23 witness: a fetch that another caller had joined failed, the registry is
\* empty, and a later request for the key has made its own upstream call.
C23_Witness ==
    \E t, v \in IndTasks :
        /\ tasks[t].pc = "failed"
        /\ JoinersOf(t) # {}
        /\ t < v /\ KeyOf(tasks[v]) = KeyOf(tasks[t])
        /\ t \notin tasks[v].overlap
        /\ v \notin Joined
        /\ CallsBy(v) # {}
        /\ tasks[v].pc \in Settled
        /\ inflightRequests = <<>>

\* the fetches that failed
FailedFetches == {t \in IndTasks : t \notin Joined /\ tasks[t].pc = "failed"}

\* the callers that joined a failed fetch failed with its error and made no
\* upstream call and no passage through the rate limiter of their own; the
\* failed attempt left no value in the cache: every cached value is the
\* data of a call that was answered with data
JoinersShareFailure ==
    /\ \A t \in FailedFetches :
          /\ Cardinality(CallsBy(t)) = 1
          /\ \A j \in JoinersOf(t) :
                /\ tasks[j].pc = "failed"
                /\ tasks[j].err = tasks[t].err
                /\ CallsBy(j) = {}
                /\ tasks[j].gateLog = <<>>
                /\ tasks[j].settledAt = tasks[t].settledAt
    /\ \A key \in DOMAIN individualIndicatorCache :
          \E t \in IndTasks :
              /\ KeyOf(tasks[t]) = key
              /\ tasks[t].last = "ok"
              /\ individualIndicatorCache[key].data = tasks[t].res

\* the step in which a fetch fails leaves the indicator cache as it was
FailureStoresNothing ==
    (\E t \in IndTasks : /\ t \notin Joined
                         /\ tasks[t].pc \notin Settled
                         /\ tasks'[t].pc = "failed")
        => individualIndicatorCache' = individualIndicatorCache

\* C24: when the in-flight upstream call of a key fails, every caller that
\* joined it fails with the same error, none of them makes an upstream call
\* of its own, and nothing is stored in the indicator cache for the key.
C24_JoinersShareFailure ==
    /\ []JoinersShareFailure
    /\ [][FailureStoresNothing]_vars

\* C24 witness: a fetch with two joiners failed; the three calls failed
\* alike after one upstream call, and the key is not in the cache.
C24_Witness ==
    \E t \in FailedFetches :
        /\ Cardinality(JoinersOf(t)) = 2
        /\ \A j \in JoinersOf(t) : tasks[j].pc = "failed"
        /\ Cardinality(CallsOf({t} \cup JoinersOf(t))) = 1
        /\ KeyOf(tasks[t]) \notin DOMAIN individualIndicatorCache

----------------------------------------------------------------------------
(* C25: what a cache hit leaves alone.                                      *)

LookupOps == {"quote", "metrics", "news", "ind"}
\* the calls that enter a fetch operation in this step: the calls made in
\* this step and the calls that re-enter after a retry pause
Entering ==
    {t \in DOMAIN tasks' : /\ tasks'[t].op \in LookupOps
                           /\ \/ t \notin DOMAIN tasks
                              \/ tasks[t].pc = "pause"}

\* no upstream call is answered and no rate limiter sleep ends in this step
OnlyEntries ==
    \A t \in DOMAIN tasks :
        tasks[t].pc \in {"http", "rlwait"} => tasks'[t].pc = tasks[t].pc

\* a step in which calls enter and every entering call is answered from the
\* cache changes nothing but the records of the calls
HitChangesNothing ==
    (OnlyEntries /\ Entering # {} /\ \A t \in Entering : tasks'[t].hit)
        => /\ UNCHANGED <<lastRequestTime, quoteCache, metricsCache,
                          individualIndicatorCache, newsSentimentCache,
                          inflightRequests, calls>>
           /\ \A t \in Entering :
                 /\ tasks'[t].pc = "done"
                 /\ tasks'[t].res = tasks'[t].lookupData
                 /\ t \in DOMAIN tasks => tasks'[t].gateLog = tasks[t].gateLog

\* a call answered from the cache at its first entry has made no upstream
\* call and no passage through the rate limiter, and is not registered
HitTouchesNothing ==
    /\ \A t \in TaskIds :
          (tasks[t].hit /\ tasks[t].pauses = 0) =>
              /\ tasks[t].pc = "done"
              /\ CallsBy(t) = {}
              /\ tasks[t].gateLog = <<>>
              /\ tasks[t].acquires = 0
              /\ tasks[t].waited = 0
    /\ \A key \in DOMAIN inflightRequests : ~tasks[inflightRequests[key]].hit

\* C25: a fetch operation answered from a fresh cache entry makes no
\* upstream call, does not pass through the rate limiter, and leaves
\* lastRequestTime, every cache and the in-flight registry unchanged.
C25_CacheHitFrame ==
    /\ []HitTouchesNothing
    /\ [][HitChangesNothing]_vars

\* C25 witness: a call made more than 12 s after the last upstream call was
\* answered from the cache, and lastRequestTime is still the time of that
\* upstream call.
C25_Witness ==
    \E t \in TaskIds :
        /\ tasks[t].hit
        /\ tasks[t].pc = "done"
        /\ tasks[t].startedAt - lastRequestTime > RATE_LIMIT_DELAY_MS
        /\ \E c \in QuotaCalls : c.at = lastRequestTime /\ c.task < t
        /\ \A c \in calls : c.task # t

----------------------------------------------------------------------------
(* SpecFail: fetches of one symbol issued one after the other against a     *)
(* provider that answers with data, with an empty payload (unknown symbol), *)
(* with an error status, or not at all.                                     *)

FailOutcomes == {"ok", "empty", "neterr", "http404"}

InitFail == InitState(AllKeys)

FailStartFetch ==
    /\ AllSettled
    /\ Cardinality(TopLevel) < MaxFailCalls
    /\ \E op \in {"quote", "metrics"} : StartFetch(op, AAPL, DefaultRetries)

FailStartNews ==
    /\ AllSettled
    /\ Cardinality(TopLevel) < MaxFailCalls
    /\ StartNews(AAPL)

FailStartIndicators ==
    /\ AllSettled
    /\ Cardinality(TopLevel) < MaxFailCalls
    /\ StartIndicators(AAPL, <<"RSI">>)

NextFail ==
    \/ FailStartFetch
    \/ FailStartNews
    \/ FailStartIndicators
    \/ \E t \in TaskIds : RateLimitWake(t)
    \/ \E t \in TaskIds : RetryWake(t)
    \/ \E t \in TaskIds, o \in FailOutcomes : FetchResponse(t, o)
    \/ \E t \in TaskIds, o \in FailOutcomes : NewsResponse(t, o)
    \/ \E t \in TaskIds, o \in FailOutcomes : IndicatorResponse(t, o)
    \/ TimerTick

SpecFail == InitFail /\ [][NextFail]_vars

----------------------------------------------------------------------------
(* C26: only a successful fetch writes a cache.                             *)

CacheOf(op) ==
    CASE op = "quote" -> quoteCache
      [] op = "metrics" -> metricsCache
      [] op = "news" -> newsSentimentCache
      [] OTHER -> individualIndicatorCache

\* the upstream call of t is answered in this step and the answer is a
\* failure: the call is rejected, pauses before a retry, or has no value
FailsNow(t) ==
    /\ tasks[t].pc = "http"
    /\ \/ tasks'[t].pc \in {"failed", "pause"}
       \/ tasks'[t].pc = "done" /\ tasks'[t].last # "ok"

\* the upstream call of t is answered with data in this step
SucceedsNow(t) ==
    /\ tasks[t].pc = "http"
    /\ tasks'[t].pc = "done"
    /\ tasks'[t].last = "ok"

\* an entry that appears or changes in a step is the data of a call
\* answered with data in that step, stamped with the time of the step
CreatedBySuccess ==
    \A op \in LookupOps : \A k \in DOMAIN CacheOf(op)' :
        (k \notin DOMAIN CacheOf(op) \/ CacheOf(op)'[k] # CacheOf(op)[k])
            => \E t \in TaskIds :
                  /\ tasks[t].op = op
                  /\ KeyOf(tasks[t]) = k
                  /\ SucceedsNow(t)
                  /\ CacheOf(op)'[k] = [data |-> tasks'[t].res, cachedAt |-> now]

\* a step in which a fetch fails leaves every cache as it was
FailureChangesNoCache ==
    (\E t \in TaskIds : FailsNow(t))
        => UNCHANGED <<quoteCache, metricsCache, individualIndicatorCache,
                       newsSentimentCache>>

\* every entry is the result of a call that went upstream and got data
EntriesAreResults ==
    \A op \in LookupOps : \A k \in DOMAIN CacheOf(op) :
        \E t \in TaskIds :
            /\ tasks[t].op = op
            /\ KeyOf(tasks[t]) = k
            /\ tasks[t].pc = "done"
            /\ tasks[t].last = "ok"
            /\ ~tasks[t].hit
            /\ CallsBy(t) # {}
            /\ tasks[t].res = CacheOf(op)[k].data

\* the credential of the provider of an operation is set
HasCredential(op) == IF op = "news" THEN env.NEWS_API_KEY ELSE env.API_KEY

\* as long as no other call for the same key has been answered with data,
\* a call (with the credential set) finds no entry and goes upstream itself
RepeatGoesUpstream ==
    \A u \in TaskIds :
        (/\ tasks[u].op \in LookupOps
         /\ HasCredential(tasks[u].op)
         /\ tasks[u].pc \in Settled
         /\ tasks[u].cur = 0
         /\ \A t \in TaskIds \ {u} :
               (tasks[t].op = tasks[u].op /\ KeyOf(tasks[t]) = KeyOf(tasks[u]))
                   => tasks[t].last # "ok")
            => /\ ~tasks[u].hit
               /\ tasks[u].lookupAge = -1
               /\ CallsBy(u) # {}

\* C26: cache entries are created only by a successful fetch; a fetch that
\* fails leaves every cache unchanged, so a failure is never cached and a
\* repeated fetch for an unknown symbol makes a new upstream call each time.
C26_OnlySuccessIsCached ==
    /\ [](EntriesAreResults /\ RepeatGoesUpstream)
    /\ [][CreatedBySuccess /\ FailureChangesNoCache]_vars

\* C26 witness: three quote fetches of one symbol, each answered with an
\* empty payload, each with an upstream call of its own, and no entry in
\* any cache
C26_Witness ==
    /\ \E t, u, v \in TaskIds :
          /\ t < u /\ u < v
          /\ \A x \in {t, u, v} :
                /\ tasks[x].op = "quote"
                /\ tasks[x].pc = "failed"
                /\ tasks[x].last = "empty"
                /\ Cardinality(CallsBy(x)) = 1
    /\ \A op \in LookupOps : DOMAIN CacheOf(op) = {}

----------------------------------------------------------------------------
(* C27: entries are never removed, only replaced.                           *)

TtlOf(op) == IF op = "news" THEN NEWS_CACHE_TTL_MS ELSE CACHE_TTL_MS

\* every entry of a cache is still there after a step, either as it was or
\* replaced as a whole by the data of a call answered with data in this
\* step, stamped no earlier than the entry it replaces
EntriesStay ==
    \A op \in LookupOps : \A k \in DOMAIN CacheOf(op) :
        /\ k \in DOMAIN CacheOf(op)'
        /\ \/ CacheOf(op)'[k] = CacheOf(op)[k]
           \/ /\ CacheOf(op)'[k].cachedAt >= CacheOf(op)[k].cachedAt
              /\ \E t \in TaskIds :
                    /\ tasks[t].op = op /\ KeyOf(tasks[t]) = k /\ SucceedsNow(t)
                    /\ CacheOf(op)'[k] = [data |-> tasks'[t].res, cachedAt |-> now]

\* a lookup that finds a stale entry does not answer from it and leaves it
\* in the cache as it is
StaleOnlyIgnored ==
    \A t \in Entering : \A op \in LookupOps :
        (tasks'[t].op = op /\ tasks'[t].lookupAge >= TtlOf(op))
            => /\ ~tasks'[t].hit
               /\ \E k \in DOMAIN CacheOf(op) :
                     /\ k = KeyOf(tasks'[t])
                     /\ OnlyEntries => CacheOf(op)'[k] = CacheOf(op)[k]

\* C27: no operation removes a cache entry: a key once present stays
\* present, a stale entry is only ignored at lookup, and an entry changes
\* only by being replaced as a whole by a later successful fetch whose
\* cachedAt is not earlier.
C27_EntriesNeverRemoved == [][EntriesStay /\ StaleOnlyIgnored]_vars

\* C27 witness: the quote entry of a first fetch was found stale by a later
\* fetch and replaced by that fetch's data, while the stale fundamentals
\* entry is still in its cache
C27_Witness ==
    /\ \E t, u \in TaskIds :
          /\ t < u
          /\ tasks[t].op = "quote" /\ tasks[u].op = "quote"
          /\ tasks[t].sym = tasks[u].sym
          /\ tasks[t].last = "ok" /\ tasks[u].last = "ok"
          /\ tasks[u].pc = "done"
          /\ tasks[u].lookupAge >= CACHE_TTL_MS
          /\ tasks[u].lookupData = tasks[t].res
          /\ quoteCache[tasks[u].sym] =
                 [data |-> tasks[u].res, cachedAt |-> tasks[u].settledAt]
          /\ tasks[u].res # tasks[t].res
    /\ \E k \in DOMAIN metricsCache : now - metricsCache[k].cachedAt >= CACHE_TTL_MS

----------------------------------------------------------------------------
(* C28: the news fetch and the rate limiter.                                *)

NewsCalls == {t \in TaskIds : tasks[t].op = "news"}

\* a news call never passes through the rate limiter and never sleeps in
\* it: its upstream call leaves in the turn in which the call was made
NewsNeverGated ==
    \A t \in NewsCalls :
        /\ tasks[t].gateLog = <<>>
        /\ tasks[t].acquires = 0
        /\ tasks[t].waited = 0
        /\ tasks[t].pc # "rlwait"
        /\ \A c \in CallsBy(t) : c.at = tasks[t].startedAt

\* lastRequestTime is the time of the latest upstream call that is not a
\* news call (its initial value before the first one)
GateTimeIsQuotaCall ==
    /\ lastRequestTime \in {0} \cup {c.at : c \in QuotaCalls}
    /\ \A c \in QuotaCalls : c.at <= lastRequestTime

\* a step in which only news calls are made or answered leaves
\* lastRequestTime as it was
NewsStepKeepsGate ==
    (/\ \A t \in DOMAIN tasks : tasks[t].op # "news" => tasks'[t] = tasks[t]
     /\ \A t \in DOMAIN tasks' : t \notin DOMAIN tasks => tasks'[t].op = "news")
        => lastRequestTime' = lastRequestTime

\* C28: fetchNewsSentiment never passes through the rate limiter: it is
\* never suspended by the gate, even right after a quota-limited call, it
\* leaves lastRequestTime unchanged, and so never delays a later quote,
\* fundamentals or indicator call.
C28_NewsBypassesLimiter ==
    /\ [](NewsNeverGated /\ GateTimeIsQuotaCall)
    /\ [][NewsStepKeepsGate]_vars

\* C28 witness: a news call made less than 12 s after a quota-limited call
\* went upstream at once, and a quote or fundamentals call made less than
\* 12 s after the news call, 12 s after the quota-limited one, found the
\* gate open
C28_Witness ==
    \E n \in NewsCalls : \E q \in FetchTasks :
        /\ q > n
        /\ tasks[n].lookupAge = -1
        /\ \E c \in QuotaCalls : /\ c.task < n
                                 /\ tasks[n].startedAt - c.at < RATE_LIMIT_DELAY_MS
        /\ \E c \in CallsBy(n) : /\ c.at = tasks[n].startedAt
                                 /\ tasks[q].startedAt - c.at < RATE_LIMIT_DELAY_MS
        /\ tasks[q].gateLog # <<>>
        /\ tasks[q].gateLog[1].open
        /\ tasks[q].waited = 0
        /\ \E c \in CallsBy(q) : c.at = tasks[q].startedAt

----------------------------------------------------------------------------
(* SpecCred: fetches of one symbol issued one after the other in a process  *)
(* started with or without each of the two credentials.                     *)

CredOutcomes == {"ok", "neterr"}

InitCred ==
    \E a, n \in BOOLEAN : InitState([API_KEY |-> a, NEWS_API_KEY |-> n])

CredStartFetch ==
    /\ AllSettled
    /\ Cardinality(TopLevel) < MaxCredCalls
    /\ \E op \in {"quote", "metrics"} : StartFetch(op, AAPL, DefaultRetries)

CredStartNews ==
    /\ AllSettled
    /\ Cardinality(TopLevel) < MaxCredCalls
    /\ StartNews(AAPL)

CredStartIndicators ==
    /\ AllSettled
    /\ Cardinality(TopLevel) < MaxCredCalls
    /\ StartIndicators(AAPL, <<"RSI">>)

NextCred ==
    \/ CredStartFetch
    \/ CredStartNews
    \/ CredStartIndicators
    \/ \E t \in TaskIds : RateLimitWake(t)
    \/ \E t \in TaskIds : RetryWake(t)
    \/ \E t \in TaskIds, o \in CredOutcomes : FetchResponse(t, o)
    \/ \E t \in TaskIds, o \in CredOutcomes : NewsResponse(t, o)
    \/ \E t \in TaskIds, o \in CredOutcomes : IndicatorResponse(t, o)
    \/ TimerTick

SpecCred == InitCred /\ [][NextCred]_vars

----------------------------------------------------------------------------
(* C29: a fetch without its credential.                                     *)

EntryOps == {"quote", "metrics", "news", "indset"}
ConfigError(op) ==
    IF op = "news" THEN "NEWS_API_KEY not set" ELSE "ALPHA_VANTAGE_API_KEY not set"

\* a call of an operation whose credential is missing has failed in the
\* turn in which it was made, with the configuration error, without an
\* upstream call, a retry pause, a passage through the rate limiter or an
\* attempt at an indicator
FailsAtOnce ==
    \A t \in TaskIds :
        (tasks[t].op \in EntryOps /\ ~HasCredential(tasks[t].op))
            => /\ tasks[t].pc = "failed"
               /\ tasks[t].err = ConfigError(tasks[t].op)
               /\ tasks[t].settledAt = tasks[t].startedAt
               /\ CallsBy(t) = {}
               /\ tasks[t].attempts = 0
               /\ tasks[t].pauses = 0
               /\ tasks[t].gateLog = <<>>
               /\ tasks[t].acquires = 0
               /\ \A u \in TaskIds : tasks[u].parent # t

\* without the quota-limited provider's credential the rate limiter is
\* never acquired and nothing is ever registered or fetched for an indicator
NothingAcquired ==
    ~env.API_KEY => /\ lastRequestTime = 0
                    /\ inflightRequests = <<>>
                    /\ IndTasks = {}
                    /\ QuotaCalls = {}

\* a step in which calls without their credential are made, and nothing
\* else happens, changes neither lastRequestTime nor the registry, the
\* caches or the upstream calls
NoCredentialStepFrame ==
    (/\ \A t \in DOMAIN tasks : tasks'[t] = tasks[t]
     /\ \A t \in DOMAIN tasks' :
           t \notin DOMAIN tasks =>
               (tasks'[t].op \in EntryOps /\ ~HasCredential(tasks'[t].op)))
        => UNCHANGED <<lastRequestTime, inflightRequests, calls, quoteCache,
                       metricsCache, individualIndicatorCache,
                       newsSentimentCache>>

\* C29: with the operation's credential missing a fetch fails at once with
\* a configuration error: no upstream call, no retry, no acquisition of the
\* rate limiter (lastRequestTime unchanged), nothing registered in the
\* in-flight registry; fetchTechnicalIndicators fails before it attempts
\* any indicator.
C29_MissingCredentialFailsAtOnce ==
    /\ [](FailsAtOnce /\ NothingAcquired)
    /\ [][NoCredentialStepFrame]_vars

\* C29 witness: in a process with only the news credential a news call was
\* answered, and a quote call and an indicator call each failed with the
\* configuration error
C29_Witness ==
    /\ ~env.API_KEY /\ env.NEWS_API_KEY
    /\ \E n, q, i \in TaskIds :
          /\ tasks[n].op = "news" /\ tasks[n].pc = "done" /\ CallsBy(n) # {}
          /\ n < q /\ n < i
          /\ tasks[q].op = "quote" /\ tasks[q].pc = "failed"
          /\ tasks[q].err = "ALPHA_VANTAGE_API_KEY not set"
          /\ tasks[i].op = "indset" /\ tasks[i].pc = "failed"
          /\ tasks[i].err = "ALPHA_VANTAGE_API_KEY not set"
          /\ tasks[i].args # <<>>
    /\ lastRequestTime = 0

----------------------------------------------------------------------------
(* SpecMix: overlapping quote, fundamentals, news and indicator fetches of  *)
(* one symbol, every upstream call answered with data.                      *)

MixOutcomes == {"ok"}

InitMix == InitState(AllKeys)

MixStartFetch ==
    /\ Cardinality(TopLevel) < MaxMixCalls
    /\ \E op \in {"quote", "metrics"} : StartFetch(op, AAPL, DefaultRetries)

MixStartNews ==
    /\ Cardinality(TopLevel) < MaxMixCalls
    /\ StartNews(AAPL)

MixStartIndicators ==
    /\ Cardinality(TopLevel) < MaxMixCalls
    /\ \E inds \in IndLists : StartIndicators(AAPL, inds)

NextMix ==
    \/ MixStartFetch
    \/ MixStartNews
    \/ MixStartIndicators
    \/ \E t \in TaskIds : RateLimitWake(t)
    \/ \E t \in TaskIds, o \in MixOutcomes : FetchResponse(t, o)
    \/ \E t \in TaskIds, o \in MixOutcomes : NewsResponse(t, o)
    \/ \E t \in TaskIds, o \in MixOutcomes : IndicatorResponse(t, o)
    \/ TimerTick

SpecMix == InitMix /\ [][NextMix]_vars

----------------------------------------------------------------------------
(* C30: each kind of data and each indicator is its own unit.               *)

\* the upstream calls that asked the provider for the data of kind op
\* (indicator ind) of symbol sym
CallsFor(op, sym, ind) ==
    {c \in calls : c.api = ApiOf(op, ind) /\ c.sym = sym}

\* whatever a call returns, from the cache, from a fetch it joined or from
\* its own fetch, is the answer to an upstream call for the same kind of
\* data, the same indicator and the same symbol
ServedOwnKind ==
    \A t \in TaskIds :
        (tasks[t].op \in LookupOps /\ tasks[t].pc = "done"
                                   /\ tasks[t].res \notin {Undefined, NoValue})
            => \E c \in CallsFor(tasks[t].op, tasks[t].sym, tasks[t].ind) :
                  tasks[t].res = DataOf(c.task, c.n)

\* every entry of a cache is the answer to an upstream call for that
\* cache's kind of data and the entry's key
EntriesOfOwnKind ==
    /\ \A k \in DOMAIN quoteCache :
          \E c \in CallsFor("quote", k, "") : quoteCache[k].data = DataOf(c.task, c.n)
    /\ \A k \in DOMAIN metricsCache :
          \E c \in CallsFor("metrics", k, "") : metricsCache[k].data = DataOf(c.task, c.n)
    /\ \A k \in DOMAIN newsSentimentCache :
          \E c \in CallsFor("news", k, "") :
              newsSentimentCache[k].data = DataOf(c.task, c.n)
    /\ \A k \in DOMAIN individualIndicatorCache :
          \E c \in CallsFor("ind", k[1], k[2]) :
              individualIndicatorCache[k].data = DataOf(c.task, c.n)

\* a call joins only a fetch of its own symbol and indicator, and the
\* registry holds a fetch under its own symbol and indicator
JoinsOwnKey ==
    /\ \A t \in Joined :
          /\ tasks[tasks[t].cur].op = "ind"
          /\ KeyOf(tasks[tasks[t].cur]) = KeyOf(tasks[t])
    /\ \A k \in DOMAIN inflightRequests :
          /\ tasks[inflightRequests[k]].op = "ind"
          /\ KeyOf(tasks[inflightRequests[k]]) = k

\* a call that is the only one so far for its kind of data and key finds
\* no entry and no fetch to join, whatever else is cached or in flight for
\* the symbol
FirstOfKeyFetches ==
    \A u \in TaskIds :
        (/\ tasks[u].op \in LookupOps
         /\ \A t \in TaskIds \ {u} :
               ~(tasks[t].op = tasks[u].op /\ KeyOf(tasks[t]) = KeyOf(tasks[u])))
            => /\ ~tasks[u].hit
               /\ tasks[u].lookupAge = -1
               /\ tasks[u].cur = 0
               /\ tasks[u].pc \in {"http", "done"} => CallsBy(u) # {}

\* C30: the indicators of one symbol are independent cache and
\* deduplication units: a cached or in-flight entry for (symbol, A) never
\* satisfies a request for (symbol, B), B # A; and the quote, fundamentals,
\* indicator and news caches never serve one another's entries for the same
\* symbol.
C30_IndependentUnits ==
    ServedOwnKind /\ EntriesOfOwnKind /\ JoinsOwnKey /\ FirstOfKeyFetches

\* C30 witness: with the quote of the symbol cached, an SMA50 request made
\* its own upstream call; while that call was in flight an RSI request for
\* the same symbol made its own upstream call too and returned RSI data,
\* and a later SMA50 request was served the SMA50 data
C30_Witness ==
    \E q \in FetchTasks : \E a, b, c \in IndTasks :
        /\ tasks[q].op = "quote" /\ tasks[q].last = "ok"
        /\ tasks[a].ind = "SMA50" /\ tasks[b].ind = "RSI" /\ tasks[c].ind = "SMA50"
        /\ tasks[q].sym = tasks[a].sym /\ tasks[a].sym = tasks[b].sym
        /\ tasks[c].sym = tasks[a].sym /\ c # a
        /\ tasks[q].settledAt <= tasks[a].startedAt
        /\ tasks[a].startedAt <= tasks[b].startedAt
        /\ tasks[b].startedAt < tasks[a].settledAt
        /\ tasks[a].pc = "done" /\ tasks[b].pc = "done" /\ tasks[c].pc = "done"
        /\ Cardinality(CallsBy(a)) = 1 /\ Cardinality(CallsBy(b)) = 1
        /\ CallsBy(c) = {}
        /\ tasks[b].cur = 0 /\ ~tasks[b].hit
        /\ tasks[c].res = tasks[a].res
        /\ tasks[b].res # tasks[a].res
        /\ tasks[a].res # tasks[q].res

----------------------------------------------------------------------------
(* C31: one indicator at a time, in the order given.                        *)

IndSets == {t \in TaskIds : tasks[t].op = "indset"}
ChildrenOf(p) == {c \in IndTasks : tasks[c].parent = p}
Unsettled(ts) == {t \in ts : tasks[t].pc \notin Settled}

\* the indicator fetches of one call follow the list given: the i-th fetch
\* is for the i-th indicator, and it starts when all earlier ones have
\* settled
InOrderGiven ==
    \A p \in IndSets :
        LET ks == ChildrenOf(p) IN
        /\ Cardinality(ks) <= Len(tasks[p].args)
        /\ tasks[p].pc = "done" => Cardinality(ks) = Len(tasks[p].args)
        /\ \A c \in ks :
              /\ tasks[c].ind = tasks[p].args[Cardinality({d \in ks : d <= c})]
              /\ \A d \in ks :
                    d < c => /\ tasks[d].pc \in Settled
                             /\ tasks[d].settledAt <= tasks[c].startedAt

\* a call has at most one indicator fetch that has not settled, hence at
\* most one upstream call of its own in flight
OneAtATime ==
    \A p \in IndSets :
        /\ Cardinality(Unsettled(ChildrenOf(p))) <= 1
        /\ Cardinality({c \in ChildrenOf(p) : tasks[c].pc = "http"}) <= 1
        /\ Unsettled(ChildrenOf(p)) # {} => tasks[p].pc = "await"

\* C31: fetchTechnicalIndicators processes the requested indicators one
\* after another in the order given: the fetch of the next indicator does
\* not start until the previous one has settled, so a call never has two of
\* its own indicator upstream calls in flight at once.
C31_IndicatorsInSequence == InOrderGiven /\ OneAtATime

\* C31 witness: a call for [RSI, SMA50] has returned; its RSI fetch waited
\* in the rate limiter and went upstream, and its SMA50 fetch went upstream
\* only after the RSI fetch had settled
C31_Witness ==
    \E p \in IndSets : \E a, b \in ChildrenOf(p) :
        /\ tasks[p].args = <<"RSI", "SMA50">>
        /\ tasks[p].pc = "done"
        /\ tasks[a].ind = "RSI" /\ tasks[b].ind = "SMA50"
        /\ tasks[a].waited > 0
        /\ tasks[a].settledAt > tasks[a].startedAt
        /\ \E x \in CallsBy(a) : \E y \in CallsBy(b) : x.at < y.at
        /\ tasks[a].settledAt <= tasks[b].startedAt

----------------------------------------------------------------------------
(* C32: compareStocks fans out before it waits.                             *)

WrappersOf(c) == {w \in TaskIds : tasks[w].op = "wrap" /\ tasks[w].parent = c}
FetchesOf(w) == {f \in FetchTasks : tasks[f].parent = w}

\* every symbol of a comparison has its per-symbol task, with a quote fetch
\* and a fundamentals fetch, all started in the turn of the call itself
AllStartedAtOnce ==
    \A c \in CompareTasks :
        /\ Cardinality(WrappersOf(c)) = Len(tasks[c].todo)
        /\ \A i \in DOMAIN tasks[c].todo :
              \E w \in WrappersOf(c) :
                  /\ tasks[w].sym = tasks[c].todo[i]
                  /\ tasks[w].startedAt = tasks[c].startedAt
                  /\ Cardinality(FetchesOf(w)) = 2
                  /\ \A op \in {"quote", "metrics"} :
                        \E f \in FetchesOf(w) :
                            /\ tasks[f].op = op
                            /\ tasks[f].sym = tasks[w].sym
                            /\ tasks[f].startedAt = tasks[c].startedAt

\* a comparison has returned only if every per-symbol task has settled,
\* and it returns no earlier than the last of them
ReturnsAfterAll ==
    \A c \in CompareTasks :
        /\ tasks[c].pc \in Settled
              => \A w \in WrappersOf(c) :
                    /\ tasks[w].pc \in Settled
                    /\ tasks[w].settledAt <= tasks[c].settledAt
        /\ (\A w \in WrappersOf(c) : tasks[w].pc \in Settled)
              => tasks[c].pc \in Settled

\* C32: compareStocks starts the quote fetch and the fundamentals fetch of
\* every requested symbol before it waits for any of them, so a slow or
\* failing symbol never prevents the fetches of the other symbols from
\* being started, and it returns only after every per-symbol task has
\* settled.
C32_CompareFansOut == AllStartedAtOnce /\ ReturnsAfterAll

\* C32 witness: a comparison of two symbols has returned; the first
\* symbol's quote fetch failed after its retries, long after the second
\* symbol's fetches were started, and the second symbol is in the result
C32_Witness ==
    \E c \in CompareTasks : \E v, w \in WrappersOf(c) :
        /\ tasks[c].pc = "done"
        /\ tasks[v].sym = tasks[c].todo[1] /\ tasks[w].sym = tasks[c].todo[2]
        /\ \E f \in FetchesOf(v) :
              /\ tasks[f].op = "quote" /\ tasks[f].pc = "failed"
              /\ tasks[f].pauses > 0
              /\ \A g \in FetchesOf(w) :
                    /\ tasks[g].startedAt < tasks[f].settledAt
                    /\ tasks[g].pc = "done"
        /\ DOMAIN tasks[c].got = {tasks[w].sym}
        /\ tasks[c].settledAt >= tasks[v].settledAt

----------------------------------------------------------------------------
(* C33: a fetch of compareStocks outlives the task that awaited it.         *)

\* the fetches whose per-symbol task has already settled (its other fetch
\* failed) while they are still waiting for the rate limiter, for their
\* upstream call or for a retry
Orphans ==
    {f \in FetchTasks : /\ tasks[f].parent # 0
                        /\ tasks[tasks[f].parent].pc \in Settled
                        /\ tasks[f].pc \notin Settled}

\* a fetch settles by the answer to its own upstream call (or from the
\* cache), never by what happens to the task that awaits it
SettlesByOwnAnswer ==
    \A f \in FetchTasks :
        /\ tasks[f].pc = "failed"
              => /\ tasks[f].last \in Outcomes \ {"ok"}
                 /\ tasks[f].err = ErrorOf(tasks[f].last)
        /\ tasks[f].pc = "done"
              => \/ tasks[f].hit
                 \/ tasks[f].last = "ok" /\ tasks[f].res = tasks[f].callNo

\* a fetch whose per-symbol task has settled keeps its pending timer or
\* upstream call: the rate limiter sleep, the HTTP call or the retry pause
\* it is in is still due
OrphansStayArmed ==
    \A f \in Orphans :
        /\ tasks[f].pc \in {"rlwait", "http", "pause"}
        /\ tasks[f].wake >= now

\* a fetch that resolved after its per-symbol task had settled passed the
\* rate limiter, went upstream and left its result in the cache
LateResultStored ==
    \A f \in FetchTasks :
        (/\ tasks[f].parent # 0
         /\ tasks[f].pc = "done" /\ ~tasks[f].hit
         /\ tasks[tasks[f].parent].pc \in Settled
         /\ tasks[tasks[f].parent].settledAt < tasks[f].settledAt)
            => /\ tasks[f].acquires >= 1
               /\ CallsBy(f) # {}
               /\ tasks[f].sym \in DOMAIN CacheOf(tasks[f].op)
               /\ CacheOf(tasks[f].op)[tasks[f].sym] =
                      [data |-> tasks[f].res, cachedAt |-> tasks[f].settledAt]

\* C33: cancellation is not propagated inside compareStocks: when one of a
\* symbol's two fetches fails while the other is still pending, the pending
\* fetch is not stopped; it still acquires the rate limiter, calls upstream
\* and stores its result in the cache (compareStocks may have returned
\* while it is in flight).
C33_NoCancellation == SettlesByOwnAnswer /\ OrphansStayArmed /\ LateResultStored

\* a comparison has returned while a fetch it started is still in flight
C33_ReturnedWithFetchInFlight ==
    \E c \in CompareTasks : \E f \in Orphans :
        /\ tasks[c].pc = "done"
        /\ tasks[tasks[f].parent].parent = c
        /\ tasks[f].pc \in {"rlwait", "http"}

\* C33 witness: a symbol's quote fetch failed, the comparison returned, and
\* after that the symbol's fundamentals fetch, which went upstream after
\* the failure, resolved and its data is in the fundamentals cache
C33_Witness ==
    \E c \in CompareTasks : \E w \in WrappersOf(c) : \E q, m \in FetchesOf(w) :
        /\ tasks[c].pc = "done"
        /\ tasks[q].op = "quote" /\ tasks[q].pc = "failed"
        /\ tasks[m].op = "metrics" /\ tasks[m].pc = "done" /\ tasks[m].last = "ok"
        /\ tasks[q].settledAt = tasks[w].settledAt
        /\ \E x \in CallsBy(m) : x.at > tasks[q].settledAt
        /\ tasks[m].settledAt > tasks[c].settledAt
        /\ tasks[m].sym \in DOMAIN metricsCache
        /\ metricsCache[tasks[m].sym].data = tasks[m].res
        /\ tasks[m].sym \notin DOMAIN tasks[c].got

----------------------------------------------------------------------------
(* C34: one acquisition of the rate limiter.                                *)

\* the number of passages through the rate limiter a call has begun
PassagesBefore(t) == IF t \in DOMAIN tasks THEN Len(tasks[t].gateLog) ELSE 0
EntersGate(t) == Len(tasks'[t].gateLog) > PassagesBefore(t)

\* a caller asleep in the rate limiter sleeps for the interval less the
\* time since lastRequestTime as it read them at entry: more than nothing,
\* at most the interval
SleepIsRemainder ==
    \A t \in TaskIds :
        tasks[t].pc = "rlwait" =>
            LET g == tasks[t].gateLog[Len(tasks[t].gateLog)]
                entry == tasks[t].wake - tasks[t].waited
            IN /\ ~g.open
               /\ tasks[t].pauses = 0 => entry = tasks[t].startedAt
               /\ entry - g.seen < RATE_LIMIT_DELAY_MS
               /\ tasks[t].waited = RATE_LIMIT_DELAY_MS - (entry - g.seen)
               /\ tasks[t].waited > 0
               /\ tasks[t].waited <= RATE_LIMIT_DELAY_MS
               /\ entry <= now /\ now <= tasks[t].wake

\* entry: the caller reads lastRequestTime as it is at that point of the
\* turn (the value before the step, or the current time written by a caller
\* that entered earlier in the same turn); with the interval elapsed it is
\* not suspended, its upstream call leaves at once and lastRequestTime
\* becomes the current time; otherwise it sleeps for the remainder
EntryStep ==
    \A t \in DOMAIN tasks' :
        EntersGate(t) =>
            LET g == tasks'[t].gateLog[Len(tasks'[t].gateLog)] IN
            /\ g.seen \in {lastRequestTime, now}
            /\ g.open = (now - g.seen >= RATE_LIMIT_DELAY_MS)
            /\ IF now - g.seen >= RATE_LIMIT_DELAY_MS
               THEN /\ tasks'[t].pc = "http"
                    /\ lastRequestTime' = now
                    /\ \E c \in calls' \ calls : c.task = t /\ c.at = now
               ELSE /\ tasks'[t].pc = "rlwait"
                    /\ tasks'[t].waited = RATE_LIMIT_DELAY_MS - (now - g.seen)
                    /\ tasks'[t].wake = now + tasks'[t].waited
                    /\ (\A u \in DOMAIN tasks' \ {t} : ~EntersGate(u))
                          => lastRequestTime' = lastRequestTime

\* completion: the sleep ends when it is due, not before, and
\* lastRequestTime becomes the current time
CompletionStep ==
    \A t \in DOMAIN tasks :
        (tasks[t].pc = "rlwait" /\ tasks'[t].pc # "rlwait")
            => /\ now = tasks[t].wake
               /\ now' = now
               /\ lastRequestTime' = now
               /\ tasks'[t].pc = "http"
               /\ tasks'[t].acquires = tasks[t].acquires + 1

LastRequestTimeMonotone == lastRequestTime' >= lastRequestTime

\* every caller asleep in the rate limiter leaves it
AcquisitionCompletes ==
    \A t \in 1..MaxConcCalls :
        (t \in DOMAIN tasks /\ tasks[t].pc = "rlwait")
            ~> (t \in DOMAIN tasks /\ tasks[t].pc # "rlwait" /\ tasks[t].acquires > 0)

\* C34: a rate-limiter acquisition suspends its caller for exactly
\* max(0, interval - (now - lastRequestTime)) as read at entry, never longer
\* than the interval, and on completion sets lastRequestTime to the current
\* time; across any interleaving of callers lastRequestTime never
\* decreases and every acquisition eventually completes.
C34_AcquisitionWaitsRemainder ==
    /\ []SleepIsRemainder
    /\ [][EntryStep /\ CompletionStep /\ LastRequestTimeMonotone]_vars
    /\ AcquisitionCompletes

\* C34 witness: one caller acquired the rate limiter on entry without
\* waiting; another, entering less than the interval later, slept for the
\* remainder, shorter than the interval, and lastRequestTime is the time
\* it woke and sent its upstream call
C34_Witness ==
    \E t, u \in FetchTasks :
        /\ t # u
        /\ tasks[t].acquires >= 1
        /\ tasks[t].gateLog[1].open
        /\ tasks[u].acquires = 1 /\ tasks[u].pauses = 0
        /\ ~tasks[u].gateLog[1].open
        /\ tasks[u].waited > 0 /\ tasks[u].waited < RATE_LIMIT_DELAY_MS
        /\ tasks[u].pc = "http"
        /\ \E c \in CallsBy(u) :
              /\ c.at = tasks[u].startedAt + tasks[u].waited
              /\ c.at = tasks[u].gateLog[1].seen + RATE_LIMIT_DELAY_MS
              /\ lastRequestTime = c.at

----------------------------------------------------------------------------
(* SpecTracker: a CostTracker fed with messages of every shape, and reset.  *)

ApiVars == <<now, env, tasks, lastRequestTime, quoteCache, metricsCache,
             individualIndicatorCache, newsSentimentCache, inflightRequests,
             calls, ticked>>

MessageIds == {"msg_a", "msg_b"}
FullUsage ==
    [input_tokens |-> 100, output_tokens |-> 50,
     cache_creation_input_tokens |-> Undefined, cache_read_input_tokens |-> Undefined]
Usages ==
    {FullUsage,
     [input_tokens |-> Undefined, output_tokens |-> 7,
      cache_creation_input_tokens |-> 10, cache_read_input_tokens |-> 20],
     [input_tokens |-> Undefined, output_tokens |-> Undefined,
      cache_creation_input_tokens |-> Undefined, cache_read_input_tokens |-> Undefined]}
ReportedCost == 4 * OutputPrice + InputPrice
TotalCosts == {Undefined, 0, ReportedCost}

AssistantMessages ==
    [type : {"assistant"}, id : MessageIds, usage : Usages \cup {NoUsage},
     total_cost_usd : {Undefined}]
ResultMessages ==
    [type : {"result"}, id : {"msg_a"}, usage : {NoUsage, FullUsage},
     total_cost_usd : TotalCosts]
OtherMessages ==
    [type : {"user"}, id : {"msg_a"}, usage : {FullUsage}, total_cost_usd : {Undefined}]
Messages == AssistantMessages \cup ResultMessages \cup OtherMessages

InitTracker == InitState(AllKeys)

\* tracker.processMessage(message)
TrackerProcess ==
    /\ Len(sdk.delivered) < MaxMessages
    /\ \E m \in Messages :
          /\ costTracker' = processMessage(costTracker, m)
          /\ sdk' = [sdk EXCEPT !.delivered = Append(@, m)]
    /\ UNCHANGED <<ApiVars, agent>>

\* tracker.reset()
TrackerReset ==
    /\ sdk.delivered # <<>>
    /\ costTracker' = reset(costTracker)
    /\ sdk' = [sdk EXCEPT !.delivered = <<>>, !.wasReset = TRUE]
    /\ UNCHANGED <<ApiVars, agent>>

NextTracker == TrackerProcess \/ TrackerReset

SpecTracker == InitTracker /\ [][NextTracker]_vars

----------------------------------------------------------------------------
(* C35: each assistant message id is counted once.                          *)

\* an assistant message that carries usage data
IsStep(m) == m.type = "assistant" /\ m.usage # NoUsage

\* the first occurrences: the positions of the messages delivered since
\* the last reset that are assistant messages with usage and whose id no
\* earlier such message had
FirstOccurrences(msgs) ==
    {i \in DOMAIN msgs :
        /\ IsStep(msgs[i])
        /\ \A j \in 1..(i - 1) : IsStep(msgs[j]) => msgs[j].id # msgs[i].id}

RECURSIVE SumFirst(_, _, _)
SumFirst(msgs, is, field) ==
    IF is = {} THEN 0
    ELSE LET i == CHOOSE x \in is : TRUE
         IN SumFirst(msgs, is \ {i}, field) +
            (IF field = "input" THEN OrZero(msgs[i].usage.input_tokens)
             ELSE OrZero(msgs[i].usage.output_tokens))

\* the report counts the distinct ids and sums the first occurrences
CountsFirstOccurrences ==
    LET msgs == sdk.delivered
        firsts == FirstOccurrences(msgs)
        report == getDetailedUsage(costTracker)
    IN /\ report.totalSteps = Cardinality({msgs[i].id : i \in {j \in DOMAIN msgs : IsStep(msgs[j])}})
       /\ report.totalSteps = Cardinality(firsts)
       /\ report.totalInputTokens = SumFirst(msgs, firsts, "input")
       /\ report.totalOutputTokens = SumFirst(msgs, firsts, "output")
       /\ costTracker.processedMessageIds = {msgs[i].id : i \in firsts}

\* a message of another type or without usage adds no step
OthersAddNoStep ==
    (Len(sdk'.delivered) = Len(sdk.delivered) + 1
        /\ ~IsStep(sdk'.delivered[Len(sdk'.delivered)]))
        => /\ costTracker'.stepUsages = costTracker.stepUsages
           /\ costTracker'.processedMessageIds = costTracker.processedMessageIds

\* C35: CostTracker counts each assistant message id at most once: after
\* any sequence of processMessage calls totalSteps is the number of distinct
\* ids among the assistant messages that carried usage data, and the input
\* and output token totals are the sums over exactly those first
\* occurrences; messages of another type or without usage add no step.
C35_CountsEachIdOnce ==
    /\ []CountsFirstOccurrences
    /\ [][OthersAddNoStep]_vars

\* C35 witness: the same id was delivered twice with different usage and a
\* result message with usage in between; one step is counted, with the
\* tokens of the first delivery
C35_Witness ==
    LET msgs == sdk.delivered IN
    /\ Len(msgs) = 3
    /\ IsStep(msgs[1]) /\ IsStep(msgs[3])
    /\ msgs[1].id = msgs[3].id
    /\ msgs[1].usage = FullUsage /\ msgs[3].usage # FullUsage
    /\ msgs[2].type = "result" /\ msgs[2].usage = FullUsage
    /\ getDetailedUsage(costTracker).totalSteps = 1
    /\ getDetailedUsage(costTracker).totalInputTokens = FullUsage.input_tokens
    /\ getDetailedUsage(costTracker).totalOutputTokens = FullUsage.output_tokens

----------------------------------------------------------------------------
(* C36: the total of the result message.                                    *)

\* a result message that carries total_cost_usd
CarriesTotal(m) == m.type = "result" /\ m.total_cost_usd # Undefined

\* the positions of such messages among those delivered since the last reset
TotalsDelivered == {i \in DOMAIN sdk.delivered : CarriesTotal(sdk.delivered[i])}
LastTotal ==
    sdk.delivered[CHOOSE i \in TotalsDelivered : \A j \in TotalsDelivered : j <= i]
        .total_cost_usd

\* the report's total is the total of the latest result message if there
\* is one, else the sum of the step costs
ReportsAuthoritativeTotal ==
    LET report == getDetailedUsage(costTracker) IN
    IF TotalsDelivered # {}
    THEN /\ getTotalCost(costTracker) = LastTotal
         /\ report.totalCostUSD = LastTotal
    ELSE report.totalCostUSD = SumSteps(costTracker.stepUsages, "cost")

\* a result message with a total adds no step and changes no token total
ResultAddsNoStep ==
    (Len(sdk'.delivered) = Len(sdk.delivered) + 1
        /\ CarriesTotal(sdk'.delivered[Len(sdk'.delivered)]))
        => /\ costTracker'.finalTotalCost =
                  sdk'.delivered[Len(sdk'.delivered)].total_cost_usd
           /\ costTracker'.stepUsages = costTracker.stepUsages
           /\ costTracker'.processedMessageIds = costTracker.processedMessageIds

\* C36: a result message carrying total_cost_usd sets the tracker's
\* authoritative total without adding a step or changing the token totals,
\* and getDetailedUsage reports that authoritative total whenever a result
\* message has been processed since the last reset, falling back to the sum
\* of the per-step costs only when none has.
C36_ResultTotalIsAuthoritative ==
    /\ []ReportsAuthoritativeTotal
    /\ [][ResultAddsNoStep]_vars

\* what the code does: the report shows the total of the latest result
\* message unless that total is 0, in which case, as when there is no such
\* message, it shows the sum of the step costs
C36_ZeroTotalFallsBack ==
    LET report == getDetailedUsage(costTracker) IN
    IF TotalsDelivered # {} /\ LastTotal # 0
    THEN report.totalCostUSD = LastTotal
    ELSE report.totalCostUSD = SumSteps(costTracker.stepUsages, "cost")

\* a result message with total 0 after a step with a cost: the report does
\* not show 0
C36_ZeroTotalReached ==
    /\ TotalsDelivered # {}
    /\ LastTotal = 0
    /\ getTotalCost(costTracker) = 0
    /\ getDetailedUsage(costTracker).totalCostUSD > 0

----------------------------------------------------------------------------
(* SpecAgent: queries made one after the other on one StockAnalystAgent,    *)
(* the SDK delivering system, assistant and result messages; clearSession   *)
(* at any moment.                                                           *)

SessionIds == {"sess_1", "sess_2"}
SystemMessages ==
    [type : {"system"}, subtype : {"init", "compact_boundary"},
     session_id : SessionIds, id : {"msg_a"}, usage : {NoUsage},
     total_cost_usd : {Undefined}]
TurnMessages ==
    [type : {"assistant"}, subtype : {""}, session_id : {"sess_1"},
     id : MessageIds, usage : {FullUsage}, total_cost_usd : {Undefined}]
      \cup [type : {"result"}, subtype : {"success"}, session_id : {"sess_1"},
            id : {"msg_a"}, usage : {NoUsage}, total_cost_usd : {ReportedCost}]
AgentMessages == SystemMessages \cup TurnMessages

AgentState == [agent |-> agent, costTracker |-> costTracker, sdk |-> sdk]
AgentCommit(st) ==
    /\ agent' = st.agent
    /\ costTracker' = st.costTracker
    /\ sdk' = st.sdk
    /\ UNCHANGED ApiVars

InitAgent == InitState(AllKeys)

AgentAnalyze ==
    /\ ~sdk.running
    /\ Len(sdk.queries) < MaxQueries
    /\ AgentCommit(analyze(AgentState))

AgentMessage ==
    /\ sdk.running
    /\ Len(sdk.delivered) < MaxTurnMessages
    /\ \E m \in AgentMessages : AgentCommit(onMessage(AgentState, m))

AgentEnd ==
    /\ sdk.running
    /\ AgentCommit(analyzeEnd(AgentState))

AgentClearSession ==
    /\ AgentCommit(clearSession(AgentState))

NextAgent == AgentAnalyze \/ AgentMessage \/ AgentEnd \/ AgentClearSession

SpecAgent == InitAgent /\ [][NextAgent]_vars

\* the tracker after processing the messages ms, in order, from new
RECURSIVE Replay(_)
Replay(ms) ==
    IF ms = <<>> THEN NewCostTracker
    ELSE processMessage(Replay(SubSeq(ms, 1, Len(ms) - 1)), ms[Len(ms)])

\* hasSession() is true exactly when the capture of a session id from an
\* init message is the latest of the captures and the clearSession calls
SessionIffCaptured == hasSession(agent) <=> sdk.lastSessionEvent = "init"

\* only an init message captures: the id held is the one of the latest
\* init message, and no other message changes it
CaptureStep ==
    \A m \in AgentMessages :
        (sdk.running /\ AgentState' = onMessage(AgentState, m))
        => agent'.sessionId = IF m.type = "system" /\ m.subtype = "init"
                              THEN m.session_id ELSE agent.sessionId

\* an analyze() issued while a session exists resumes the id held, one
\* issued while none exists (after clearSession with no capture since, or
\* before any capture) passes no resume option
ResumesWhatIsHeld ==
    \A i \in DOMAIN sdk.queries :
        LET q == sdk.queries[i]
        IN /\ q.hadSession => q.resume = q.sessionAtCall /\ q.resume \in SessionIds
           /\ ~q.hadSession => q.resume = NoResume
AnalyzeStep ==
    Len(sdk'.queries) > Len(sdk.queries)
    => /\ costTracker' = NewCostTracker
       /\ agent'.totalCost = 0
       /\ agent'.sessionId = agent.sessionId
       /\ sdk.lastSessionEvent = "init"
          => sdk'.queries[Len(sdk'.queries)].resume = agent.sessionId
       /\ sdk.lastSessionEvent # "init"
          => sdk'.queries[Len(sdk'.queries)].resume = NoResume

\* the tracker holds exactly what the messages of the latest query put in
\* it, so the usage report covers only those
ReportCoversLatestQuery ==
    sdk.queries # <<>>
    => /\ costTracker = Replay(sdk.delivered)
       /\ getDetailedUsage(costTracker) = getDetailedUsage(Replay(sdk.delivered))

\* C37: with queries made one after the other, hasSession() is true iff a
\* session id was captured from an init message since construction or the
\* last clearSession(); analyze() resumes the id held when a session
\* exists and passes no resume option when none does; analyze() resets the
\* cost tracker first, so the usage report covers only the messages of the
\* latest query.
C37_OneSessionAcrossQueries ==
    /\ [](SessionIffCaptured /\ ResumesWhatIsHeld /\ ReportCoversLatestQuery)
    /\ [][CaptureStep /\ AnalyzeStep]_vars

\* three queries: the first starts without a session and captures one, the
\* second resumes it and records a step, clearSession follows, the third
\* does not resume, and its report shows its own single step only
C37_Witness ==
    /\ Len(sdk.queries) = 3
    /\ ~sdk.queries[1].hadSession
    /\ sdk.queries[2].resume = "sess_1"
    /\ sdk.queries[2].steps = 2
    /\ ~sdk.queries[3].hadSession
    /\ sdk.queries[3].resume = NoResume
    /\ ~sdk.running
    /\ sdk.queries[3].steps = 1
    /\ getDetailedUsage(costTracker).totalSteps = 1
    /\ sdk.lastSessionEvent = "clear"

----------------------------------------------------------------------------
(* SpecTools: the agent calls the finance tools one after the other; the    *)
(* credentials may be missing and the provider may answer with data, with   *)
(* an empty payload or with status 404 (none of which is retried).          *)

ToolOutcomes == {"ok", "empty", "http404"}
ToolArgs(name) ==
    CASE name = "calculate_technical_indicators" ->
             {[symbol |-> AAPL, indicators |-> <<"RSI">>]}
      [] name = "compare_stocks" -> {[symbols |-> <<AAPL, MSFT>>]}
      [] OTHER -> {[symbol |-> AAPL]}

ToolCalls == {t \in TaskIds : tasks[t].op = "tool"}

ToolCall ==
    /\ AllSettled
    /\ Cardinality(ToolCalls) < MaxToolCalls
    /\ \E name \in ToolNames : \E args \in ToolArgs(name) :
          /\ Commit(callTool(State, name, args))
          /\ ticked' = FALSE
          /\ UNCHANGED <<now, env>>

NextTools ==
    \/ ToolCall
    \/ \E t \in TaskIds : RateLimitWake(t)
    \/ \E t \in TaskIds, o \in ToolOutcomes : FetchResponse(t, o)
    \/ \E t \in TaskIds, o \in ToolOutcomes : NewsResponse(t, o)
    \/ \E t \in TaskIds, o \in ToolOutcomes : IndicatorResponse(t, o)
    \/ TimerTick

SpecTools == InitCred /\ [][NextTools]_vars

\* the operation a handler awaits, and the handlers that have returned
OperationOf(h) == tasks[tasks[h].cur]
Returned == {h \in ToolCalls : tasks[h].pc = "done"}

\* no handler call ends in a rejection
NoHandlerThrows == \A h \in ToolCalls : tasks[h].pc # "failed"

\* a handler whose operation failed has returned a result with isError and
\* the message of the error after the handler's prefix; one whose operation
\* succeeded has returned a result without isError
ErrorBecomesResult ==
    \A h \in Returned :
        IF OperationOf(h).pc = "failed"
        THEN /\ tasks[h].got.isError
             /\ tasks[h].got.text.head = ErrorPrefix(tasks[h].ind)
             /\ tasks[h].got.text.body = OperationOf(h).err
             /\ OperationOf(h).err # ""
        ELSE ~tasks[h].got.isError

\* the handler returns in the turn in which its operation settles
ReturnsWithOperation ==
    \A h \in ToolCalls :
        tasks[h].pc \in Settled <=> OperationOf(h).pc \in Settled

\* compare_stocks returns a result without isError, with N/A in the cells
\* of each symbol missing from the comparison map and the values of the map
\* in the cells of the others
CompareShowsNA ==
    \A h \in Returned :
        tasks[h].ind = "compare_stocks"
        => LET c == OperationOf(h)
               table == tasks[h].got.text.body
           IN /\ ~tasks[h].got.isError
              /\ table.symbols = c.todo
              /\ \A i \in DOMAIN c.todo :
                    IF c.todo[i] \in DOMAIN c.got
                    THEN /\ table.price[i] =
                                [text |-> "value", value |-> c.got[c.todo[i]].price]
                         /\ table.marketCap[i].text = "value"
                    ELSE /\ table.price[i].text = "N/A"
                         /\ table.marketCap[i].text = "N/A"

\* C38: no finance tool handler throws; every error of the underlying fetch
\* operation becomes a returned result with isError set and the error's
\* message; compare_stocks returns a non-error result showing N/A for each
\* symbol missing from the comparison map.
C38_HandlersNeverThrow ==
    NoHandlerThrows /\ ErrorBecomesResult /\ ReturnsWithOperation /\ CompareShowsNA

\* get_stock_price has returned the error of a failed fetchStockQuote, and
\* compare_stocks has returned a table with one symbol shown and the other
\* missing
C38_Witness ==
    \E h1, h2 \in Returned :
        /\ tasks[h1].ind = "get_stock_price"
        /\ OperationOf(h1).pc = "failed"
        /\ tasks[h1].got.isError
        /\ tasks[h2].ind = "compare_stocks"
        /\ ~tasks[h2].got.isError
        /\ tasks[h2].got.text.body.price[1].text = "N/A"
        /\ tasks[h2].got.text.body.price[2].text = "value"
============================================================================
